---------------------------- MODULE Spec2Model ----------------------------
(***************************************************************************)
(* PeaPod core (pea-core): the Coordinator PeaPodCore, the chunk manager,  *)
(* the scheduler and the integrity helpers, as a state machine.            *)
(*                                                                         *)
(* Byte strings are kept in run-length form: a payload is a sequence of    *)
(* runs [src, off, len], "len bytes of content src starting at offset      *)
(* off".  src "B" is the body the transfer downloads, src "X" is foreign   *)
(* content (a tampered or misplaced payload).  Concatenation merges        *)
(* adjacent runs of the same content, so two byte strings are equal        *)
(* exactly when their run sequences are equal.                             *)
(***************************************************************************)
EXTENDS Integers, Sequences, FiniteSets, TLC

VARIABLES
    peers,               \* PeaPodCore.peers: Vec<DeviceId>
    peer_last_tick,      \* PeaPodCore.peer_last_tick: HashMap<DeviceId, u64>
    tick_count,          \* PeaPodCore.tick_count
    active_transfer,     \* PeaPodCore.active_transfer: Option, <<>> or <<ActiveTransfer>>
    chunk_request_times, \* PeaPodCore.chunk_request_times: HashMap<ChunkId, u64>
    next_transfer,       \* the next value uuid::Uuid::new_v4() mints
    sched,               \* the last direct call of scheduler::assign_chunks_to_peers
    split,               \* a direct call of chunk::split_into_chunks, as far as it has run
    xfer,                \* a TransferState driven directly through its own operations
    wire,                \* a byte stream of frames written with encode_frame and read with decode_frame
    conn,                \* one direction of a transport connection: the writer task and the read loop
    metr,                \* the last direct call of scheduler::assign_chunks_with_metrics
    host,                \* the requests the host has still to send and those delivered to workers
    failed_from,         \* history: per peer, the ChunkData frames from it that failed verification
    rejected,            \* history: the receipts of the current transfer that failed verification
    last                 \* the last call of the event API: its arguments and what it returned

vars == <<peers, peer_last_tick, tick_count, active_transfer,
          chunk_request_times, next_transfer, sched, split, xfer, wire, conn, metr,
          host, failed_from, rejected, last>>

\* the parts of the library called on their own
direct == <<sched, split, xfer, wire, conn, metr>>

core_vars == <<peers, peer_last_tick, tick_count, active_transfer,
               chunk_request_times, next_transfer, last>>

-----------------------------------------------------------------------------
(* Program constants *)

HEARTBEAT_TIMEOUT_TICKS == 5
DEFAULT_CHUNK_TIMEOUT_TICKS == 30
DEFAULT_CHUNK_SIZE == 262144
DEFAULT_MAX_INTEGRITY_FAILURES == 3
DEFAULT_MAX_FAILURES == 3

(* Bounds of the model *)

NumPeers == 2          \* devices other than the local one
MaxChunks == 2         \* a request spans at most this many chunks
MaxTransfers == 2      \* transfer ids minted in one run
MaxTick == 1           \* ticks in one run of Spec
HbMaxTick == 8         \* ticks in one run of HeartbeatSpec
LongMaxTick == 32      \* ticks in one run of LongSpec
LongNumPeers == 1      \* peers in LongSpec
LongMarkTick == 0      \* LongSpec marks chunk requests up to this tick
LongMaxTransfers == 1  \* transfers in one run of LongSpec
WordBits == 20         \* SplitSpec: width of the unsigned integer standing for u64
SplitMaxSteps == 6     \* SplitSpec: loop iterations followed in one call
XferTotal == 3         \* XferSpec: total_length of the TransferState driven directly
XferChunk == 2         \* XferSpec: its chunk size
SchedMaxChunks == 4    \* chunks handed to the scheduler in SchedSpec
TickBits == 6          \* width of the unsigned integer standing for the u64 tick_count
LiveMaxLoss == 1       \* LiveSpec: outbound requests the host abandons in one run

-----------------------------------------------------------------------------
(* Devices *)

Self == "self"
PeerNames == <<"p1", "p2", "p3", "p4", "p5">>
PeerIds == {PeerNames[i] : i \in 1..NumPeers}
Devices == {Self} \cup PeerIds
NoDevice == "-"

(* Option<T> is a sequence of length 0 (None) or 1 (Some) *)
None == <<>>
Some(x) == <<x>>

EmptyMap == [x \in {} |-> 0]
MapInsert(m, k, v) == [x \in (DOMAIN m) \cup {k} |-> IF x = k THEN v ELSE m[x]]
MapRemove(m, k) == [x \in (DOMAIN m) \ {k} |-> m[x]]

Contains(s, x) == \E i \in 1..Len(s) : s[i] = x

\* every order in which a HashMap can yield the keys in S
Orders(S) == {o \in [1..Cardinality(S) -> S] : \A i, j \in 1..Cardinality(S) : i # j => o[i] # o[j]}

SatSub(a, b) == IF a >= b THEN a - b ELSE 0

\* the largest tick count: tick_count.saturating_add(1) stays there
TickMax == (2 ^ TickBits) - 1
SatAdd(a, b) == IF a + b > TickMax THEN TickMax ELSE a + b

-----------------------------------------------------------------------------
(* Byte strings *)

ByteRun(src, off, len) == IF len <= 0 THEN <<>> ELSE <<[src |-> src, off |-> off, len |-> len]>>

RECURSIVE ByteLen(_)
ByteLen(p) == IF p = <<>> THEN 0 ELSE p[1].len + ByteLen(Tail(p))

\* Vec::extend_from_slice
ExtendFromSlice(out, p) ==
    IF out = <<>> THEN p
    ELSE IF p = <<>> THEN out
    ELSE LET a == out[Len(out)]
             b == p[1]
         IN IF a.src = b.src /\ a.off + a.len = b.off
            THEN SubSeq(out, 1, Len(out) - 1)
                 \o <<[src |-> a.src, off |-> a.off, len |-> a.len + b.len]>>
                 \o Tail(p)
            ELSE out \o p

-----------------------------------------------------------------------------
(* integrity.rs *)

\* SHA-256 taken as injective: the digest of p is a value only p hashes to
hash_chunk(payload) == <<"sha256", payload>>
ZeroHash == <<"zeros">>

verify_chunk(payload, expected_hash) == hash_chunk(payload) = expected_hash

-----------------------------------------------------------------------------
(* chunk.rs *)

ChunkId(transfer_id, start, end) == [transfer_id |-> transfer_id, start |-> start, end |-> end]

Min(a, b) == IF a <= b THEN a ELSE b

RECURSIVE SplitLoop(_, _, _, _)
SplitLoop(transfer_id, total_len, size, start) ==
    IF start < total_len
    THEN LET end == Min(start + size, total_len)
         IN <<ChunkId(transfer_id, start, end)>> \o SplitLoop(transfer_id, total_len, size, end)
    ELSE <<>>

split_into_chunks(transfer_id, total_len, chunk_size) ==
    LET size == IF chunk_size = 0 THEN DEFAULT_CHUNK_SIZE ELSE chunk_size
    IN SplitLoop(transfer_id, total_len, size, 0)

TransferState_new(transfer_id, total_length, chunk_ids) ==
    [transfer_id |-> transfer_id, total_length |-> total_length, chunk_ids |-> chunk_ids,
     received |-> EmptyMap, in_flight |-> {}]

\* a variant that reports completion as soon as any planned chunk is held
is_complete_any(state) ==
    \E i \in 1..Len(state.chunk_ids) : state.chunk_ids[i] \in DOMAIN state.received

is_complete(state) ==
    \A i \in 1..Len(state.chunk_ids) : state.chunk_ids[i] \in DOMAIN state.received

mark_in_flight(state, chunk_id) == [state EXCEPT !.in_flight = @ \cup {chunk_id}]

mark_failed(state, chunk_id) == [state EXCEPT !.in_flight = @ \ {chunk_id}]

\* a variant that takes a second receipt of a chunk as its retraction
mark_received_toggle(state, chunk_id, payload) ==
    [state EXCEPT !.in_flight = @ \ {chunk_id},
                  !.received = IF chunk_id \in DOMAIN @ THEN MapRemove(@, chunk_id)
                               ELSE MapInsert(@, chunk_id, payload)]

mark_received(state, chunk_id, payload) ==
    [state EXCEPT !.in_flight = @ \ {chunk_id},
                  !.received = MapInsert(@, chunk_id, payload)]

RECURSIVE ReassembleFrom(_, _, _)
ReassembleFrom(state, i, out) ==
    IF i > Len(state.chunk_ids) THEN out
    ELSE LET id == state.chunk_ids[i]
         IN ReassembleFrom(state, i + 1,
                IF id \in DOMAIN state.received
                THEN ExtendFromSlice(out, state.received[id]) ELSE out)

reassemble_into_bytes(state) == ReassembleFrom(state, 1, <<>>)

chunk_request_message(chunk_id) ==
    [kind |-> "ChunkRequest", transfer_id |-> chunk_id.transfer_id,
     start |-> chunk_id.start, end |-> chunk_id.end]

\* a variant that admits the payload without verifying it
on_chunk_data_received_unverified(state, transfer_id, start, end, hash, payload) ==
    IF state.transfer_id # transfer_id
    THEN [res |-> "IntegrityFailed", body |-> <<>>, state |-> state]
    ELSE LET st == mark_received(state, ChunkId(transfer_id, start, end), payload)
         IN IF is_complete(st)
            THEN [res |-> "Complete", body |-> reassemble_into_bytes(st), state |-> st]
            ELSE [res |-> "InProgress", body |-> <<>>, state |-> st]

\* returns the result and the TransferState it leaves
on_chunk_data_received(state, transfer_id, start, end, hash, payload) ==
    IF state.transfer_id # transfer_id
    THEN [res |-> "IntegrityFailed", body |-> <<>>, state |-> state]
    ELSE LET chunk_id == ChunkId(transfer_id, start, end)
         IN IF ~verify_chunk(payload, hash)
            THEN [res |-> "IntegrityFailed", body |-> <<>>, state |-> mark_failed(state, chunk_id)]
            ELSE LET st == mark_received(state, chunk_id, payload)
                 IN IF is_complete(st)
                    THEN [res |-> "Complete", body |-> reassemble_into_bytes(st), state |-> st]
                    ELSE [res |-> "InProgress", body |-> <<>>, state |-> st]

-----------------------------------------------------------------------------
(* scheduler.rs *)

\* a variant that gives every chunk to the first worker
assign_chunks_to_first(chunk_ids, workers) ==
    IF workers = <<>> THEN <<>>
    ELSE [i \in 1..Len(chunk_ids) |-> <<chunk_ids[i], workers[1]>>]

assign_chunks_to_peers(chunk_ids, workers) ==
    IF workers = <<>> THEN <<>>
    ELSE [i \in 1..Len(chunk_ids) |-> <<chunk_ids[i], workers[((i - 1) % Len(workers)) + 1]>>]

\* a variant that leaves every chunk unassigned when no peer is eligible
assign_chunks_with_metrics_no_fallback(chunk_ids, workers, metrics, max_failures) ==
    assign_chunks_to_peers(chunk_ids,
        SelectSeq(workers, LAMBDA p : p \notin DOMAIN metrics \/ metrics[p].failures < max_failures))

\* metrics is a HashMap<DeviceId, PeerMetrics>: a function on the devices
\* that have an entry
assign_chunks_with_metrics(chunk_ids, workers, metrics, max_failures) ==
    LET eligible == SelectSeq(workers, LAMBDA p : p \notin DOMAIN metrics
                                                 \/ metrics[p].failures < max_failures)
        effective == IF eligible = <<>> THEN workers ELSE eligible
    IN assign_chunks_to_peers(chunk_ids, effective)

\* a variant that hands the departed peer's chunks to nobody
reassign_after_peer_left_none(current_assignment, peer_left, remaining_peers) == <<>>

reassign_after_peer_left(current_assignment, peer_left, remaining_peers) ==
    IF remaining_peers = <<>>
    THEN SelectSeq(current_assignment, LAMBDA a : a[2] = peer_left)
    ELSE LET mine == SelectSeq(current_assignment, LAMBDA a : a[2] = peer_left)
             to_reassign == [i \in 1..Len(mine) |-> mine[i][1]]
         IN assign_chunks_to_peers(to_reassign, remaining_peers)

-----------------------------------------------------------------------------
(* wire.rs, as far as the Coordinator uses it: a frame either carries a
   message or does not decode *)

encode_frame(msg) == [ok |-> TRUE, msg |-> msg]
\* a variant that takes bytes that do not decode for a Heartbeat
decode_frame_lenient(bytes) ==
    IF bytes.ok THEN [ok |-> TRUE, msg |-> bytes.msg]
    ELSE [ok |-> TRUE, msg |-> [kind |-> "Heartbeat", device_id |-> "p1"]]
MalformedFrame == [ok |-> FALSE, msg |-> [kind |-> "Garbage"]]
decode_frame(bytes) == IF bytes.ok THEN [ok |-> TRUE, msg |-> bytes.msg]
                       ELSE [ok |-> FALSE, msg |-> bytes.msg]

-----------------------------------------------------------------------------
(* wire.rs and protocol.rs, byte for byte: a frame is LEN_SIZE bytes of
   little-endian length followed by the bincode encoding of the Message.
   A byte is a number in 0..255, a byte string a sequence of them. *)

LEN_SIZE == 4
MAX_FRAME_LEN == 16 * 1024 * 1024

\* n.to_le_bytes() of an unsigned integer w bytes wide
RECURSIVE LeBytes(_, _)
LeBytes(n, w) == IF w = 0 THEN <<>> ELSE <<n % 256>> \o LeBytes(n \div 256, w - 1)

\* from_le_bytes
RECURSIVE LeValue(_)
LeValue(bs) == IF bs = <<>> THEN 0 ELSE bs[1] + 256 * LeValue(Tail(bs))

\* a &[u8] or Vec<u8> in bincode: its length as a u64, then its bytes
ByteSlice(bs) == LeBytes(Len(bs), 8) \o bs

\* bincode::serialize(msg): the variant's index as a u32, then its fields in
\* order; integers fixed-width little-endian, arrays as they are, DeviceId
\* and PublicKey as slices (identity.rs: serde(with = "bytes_16" / "bytes_32"))
bincode_serialize(msg) ==
    CASE msg.kind = "Beacon" ->
            LeBytes(0, 4) \o <<msg.protocol_version>> \o ByteSlice(msg.device_id)
            \o ByteSlice(msg.public_key) \o LeBytes(msg.listen_port, 2)
      [] msg.kind = "DiscoveryResponse" ->
            LeBytes(1, 4) \o <<msg.protocol_version>> \o ByteSlice(msg.device_id)
            \o ByteSlice(msg.public_key) \o LeBytes(msg.listen_port, 2)
      [] msg.kind = "Join" -> LeBytes(2, 4) \o ByteSlice(msg.device_id)
      [] msg.kind = "Leave" -> LeBytes(3, 4) \o ByteSlice(msg.device_id)
      [] msg.kind = "Heartbeat" -> LeBytes(4, 4) \o ByteSlice(msg.device_id)
      [] msg.kind = "ChunkRequest" ->
            LeBytes(5, 4) \o msg.transfer_id \o LeBytes(msg.start, 8) \o LeBytes(msg.end, 8)
      [] msg.kind = "ChunkData" ->
            LeBytes(6, 4) \o msg.transfer_id \o LeBytes(msg.start, 8) \o LeBytes(msg.end, 8)
            \o msg.hash \o ByteSlice(msg.payload)
      [] msg.kind = "Nack" ->
            LeBytes(7, 4) \o msg.transfer_id \o LeBytes(msg.start, 8) \o LeBytes(msg.end, 8)

\* a variant that writes the length big-endian
wire_encode_frame_be(msg) ==
    LET payload == bincode_serialize(msg)
        len == Len(payload)
    IN IF len > MAX_FRAME_LEN THEN [ok |-> FALSE, err |-> "TooLarge", bytes |-> <<>>]
       ELSE LET le == LeBytes(len, LEN_SIZE)
            IN [ok |-> TRUE, err |-> "",
                bytes |-> <<le[4], le[3], le[2], le[1]>> \o payload]

\* wire::encode_frame.  `payload.len() as u32` keeps the length as it is:
\* the lengths met here are far below 2^32
wire_encode_frame(msg) ==
    LET payload == bincode_serialize(msg)
        len == Len(payload)
    IN IF len > MAX_FRAME_LEN THEN [ok |-> FALSE, err |-> "TooLarge", bytes |-> <<>>]
       ELSE [ok |-> TRUE, err |-> "", bytes |-> LeBytes(len, LEN_SIZE) \o payload]

(* A reader over a byte string: r.ok, the value read last r.val, and the
   bytes not yet read r.rest. *)

ReadFailed == [ok |-> FALSE, val |-> <<>>, rest |-> <<>>]

\* the next n bytes
ReadN(r, n) ==
    IF r.ok /\ Len(r.rest) >= n
    THEN [ok |-> TRUE, val |-> SubSeq(r.rest, 1, n), rest |-> SubSeq(r.rest, n + 1, Len(r.rest))]
    ELSE ReadFailed

\* a Vec<u8>: a u64 length, then that many bytes.  A length of 2^24 or more
\* exceeds what a frame can hold, so the read fails
ReadVec(r) ==
    LET l == ReadN(r, 8)
    IN IF ~l.ok THEN ReadFailed
       ELSE IF \E i \in 4..8 : l.val[i] # 0 THEN ReadFailed
       ELSE ReadN(l, LeValue(SubSeq(l.val, 1, 3)))

\* bytes_16 / bytes_32: a Vec<u8> that must hold exactly n bytes
ReadArrayAsSlice(r, n) ==
    LET v == ReadVec(r)
    IN IF v.ok /\ Len(v.val) = n THEN v ELSE ReadFailed

DeserializeFailed == [ok |-> FALSE, msg |-> [kind |-> "Garbage"]]

\* bincode::deserialize: bytes left over after the message are allowed
bincode_deserialize(bs) ==
    LET tag == ReadN([ok |-> TRUE, val |-> <<>>, rest |-> bs], 4)
    IN IF ~tag.ok \/ (\E i \in 2..4 : tag.val[i] # 0) \/ tag.val[1] > 7 THEN DeserializeFailed
       ELSE LET t == tag.val[1]
            IN IF t \in {0, 1}
               THEN LET v == ReadN(tag, 1)
                        d == ReadArrayAsSlice(v, 16)
                        k == ReadArrayAsSlice(d, 32)
                        p == ReadN(k, 2)
                    IN IF ~p.ok THEN DeserializeFailed
                       ELSE [ok |-> TRUE,
                             msg |-> [kind |-> IF t = 0 THEN "Beacon" ELSE "DiscoveryResponse",
                                      protocol_version |-> v.val[1], device_id |-> d.val,
                                      public_key |-> k.val, listen_port |-> LeValue(p.val)]]
               ELSE IF t \in {2, 3, 4}
               THEN LET d == ReadArrayAsSlice(tag, 16)
                    IN IF ~d.ok THEN DeserializeFailed
                       ELSE [ok |-> TRUE,
                             msg |-> [kind |-> CASE t = 2 -> "Join" [] t = 3 -> "Leave"
                                                 [] OTHER -> "Heartbeat",
                                      device_id |-> d.val]]
               ELSE LET id == ReadN(tag, 16)
                        s == ReadN(id, 8)
                        e == ReadN(s, 8)
                    IN IF ~e.ok THEN DeserializeFailed
                       ELSE IF t = 6
                       THEN LET h == ReadN(e, 32)
                                p == ReadVec(h)
                            IN IF ~p.ok THEN DeserializeFailed
                               ELSE [ok |-> TRUE,
                                     msg |-> [kind |-> "ChunkData", transfer_id |-> id.val,
                                              start |-> LeValue(s.val), end |-> LeValue(e.val),
                                              hash |-> h.val, payload |-> p.val]]
                       ELSE [ok |-> TRUE,
                             msg |-> [kind |-> IF t = 5 THEN "ChunkRequest" ELSE "Nack",
                                      transfer_id |-> id.val,
                                      start |-> LeValue(s.val), end |-> LeValue(e.val)]]

DecodeErr(err) == [ok |-> FALSE, err |-> err, msg |-> [kind |-> "Garbage"], consumed |-> 0]

\* wire::decode_frame.  A length whose top byte exceeds 1 is above
\* MAX_FRAME_LEN = 2^24 whatever the other bytes are
wire_decode_frame(bytes) ==
    IF Len(bytes) < LEN_SIZE THEN DecodeErr("NeedMore")
    ELSE IF bytes[4] > 1 THEN DecodeErr("TooLarge")
    ELSE LET len == LeValue(SubSeq(bytes, 1, LEN_SIZE))
         IN IF len > MAX_FRAME_LEN THEN DecodeErr("TooLarge")
            ELSE IF Len(bytes) < LEN_SIZE + len THEN DecodeErr("NeedMore")
            ELSE LET d == bincode_deserialize(SubSeq(bytes, LEN_SIZE + 1, LEN_SIZE + len))
                 IN IF ~d.ok THEN DecodeErr("Decode")
                    ELSE [ok |-> TRUE, err |-> "", msg |-> d.msg, consumed |-> LEN_SIZE + len]

\* what on_message_received makes of the bytes it is given: the frame decoded
\* from their front, or no frame
FrameOfBytes(bytes) ==
    LET d == wire_decode_frame(bytes)
    IN IF d.ok THEN [ok |-> TRUE, msg |-> d.msg] ELSE MalformedFrame

-----------------------------------------------------------------------------
(* core.rs: values *)

SendMessage(peer, bytes) == [kind |-> "SendMessage", peer |-> peer, bytes |-> bytes]
TransferComplete(transfer_id, body) == [kind |-> "TransferComplete", transfer_id |-> transfer_id, body |-> body]
FetchChunk(chunk_id) == [kind |-> "FetchChunk", chunk |-> chunk_id]

Heartbeat(device_id) == [kind |-> "Heartbeat", device_id |-> device_id]
Join(device_id) == [kind |-> "Join", device_id |-> device_id]
Leave(device_id) == [kind |-> "Leave", device_id |-> device_id]
Beacon(device_id) == [kind |-> "Beacon", device_id |-> device_id]
DiscoveryResponse(device_id) == [kind |-> "DiscoveryResponse", device_id |-> device_id]
ChunkRequest(c) == chunk_request_message(c)
Nack(c) == [kind |-> "Nack", transfer_id |-> c.transfer_id, start |-> c.start, end |-> c.end]
ChunkData(c, hash, payload) ==
    [kind |-> "ChunkData", transfer_id |-> c.transfer_id, start |-> c.start, end |-> c.end,
     hash |-> hash, payload |-> payload]

ActiveTransfer(state, assignment) == [state |-> state, assignment |-> assignment]

\* what `last` holds before any call: the call, the device or message kind it
\* was given, whether it repeated a receipt already held, and what it returned
NoCall ==
    [op |-> "new", res |-> "", peer |-> NoDevice, kind |-> "", repeat |-> FALSE,
     body |-> <<>>, assignment |-> <<>>, actions |-> <<>>]

workers_of(cur_peers) == <<Self>> \o cur_peers

-----------------------------------------------------------------------------
(* core.rs: PeaPodCore.  A handler takes the Coordinator c (the record of
   its fields) and its arguments, and yields the Coordinator it leaves
   together with what it returns. *)

PeaPodCore_new ==
    [peers |-> <<>>, peer_last_tick |-> EmptyMap, tick_count |-> 0,
     active_transfer |-> None, chunk_request_times |-> EmptyMap, next_transfer |-> 1]

\* a variant that plans a transfer without looking at the peer set
on_incoming_request_any_pod(c, url, range) ==
    LET total_length == IF range = None THEN 0
                        ELSE SatSub(range[1][2], range[1][1]) + 1
    IN IF total_length = 0 THEN [core |-> c, res |-> "Fallback", transfer |-> None,
                                 total_length |-> 0, assignment |-> <<>>]
       ELSE LET transfer_id == c.next_transfer
                chunk_ids == split_into_chunks(transfer_id, total_length, DEFAULT_CHUNK_SIZE)
                assignment == assign_chunks_to_peers(chunk_ids, workers_of(c.peers))
                state == TransferState_new(transfer_id, total_length, chunk_ids)
            IN [core |-> [c EXCEPT !.active_transfer = Some(ActiveTransfer(state, assignment)),
                                   !.next_transfer = @ + 1],
                res |-> "Accelerate", transfer |-> Some(transfer_id),
                total_length |-> total_length, assignment |-> assignment]

on_incoming_request(c, url, range) ==
    LET total_length == IF range = None THEN 0
                        ELSE SatSub(range[1][2], range[1][1]) + 1
    IN IF total_length = 0 THEN [core |-> c, res |-> "Fallback", transfer |-> None,
                                 total_length |-> 0, assignment |-> <<>>]
       ELSE IF c.peers = <<>> THEN [core |-> c, res |-> "Fallback", transfer |-> None,
                                    total_length |-> 0, assignment |-> <<>>]
       ELSE LET transfer_id == c.next_transfer
                chunk_ids == split_into_chunks(transfer_id, total_length, DEFAULT_CHUNK_SIZE)
                workers == workers_of(c.peers)
                assignment == assign_chunks_to_peers(chunk_ids, workers)
                state == TransferState_new(transfer_id, total_length, chunk_ids)
            IN [core |-> [c EXCEPT !.active_transfer = Some(ActiveTransfer(state, assignment)),
                                   !.next_transfer = @ + 1],
                res |-> "Accelerate", transfer |-> Some(transfer_id),
                total_length |-> total_length, assignment |-> assignment]

\* a variant that takes every request for eligible
is_eligible_any(metadata) == TRUE

is_eligible(metadata) ==
    /\ metadata.supports_range
    /\ ~metadata.is_encrypted_stream
    /\ IF metadata.content_length = None THEN FALSE ELSE metadata.content_length[1] > 0

on_incoming_request_with_metadata(c, metadata) ==
    IF ~is_eligible(metadata)
    THEN [core |-> c, res |-> "Fallback", transfer |-> None, total_length |-> 0,
          assignment |-> <<>>]
    ELSE LET range == IF metadata.content_length = None THEN None
                      ELSE Some(<<0, SatSub(metadata.content_length[1], 1)>>)
         IN on_incoming_request(c, metadata.url, range)

mark_chunk_requested(c, chunk_id) ==
    [c EXCEPT !.chunk_request_times = MapInsert(@, chunk_id, c.tick_count)]

\* a variant that keeps the transfer active after returning its body
on_chunk_received_keep(c, transfer_id, start, end, hash, payload) ==
    LET chunk_id == ChunkId(transfer_id, start, end)
        c1 == [c EXCEPT !.chunk_request_times = MapRemove(@, chunk_id)]
    IN IF c1.active_transfer = None \/ c1.active_transfer[1].state.transfer_id # transfer_id
       THEN [core |-> c1, res |-> "UnknownTransfer", body |-> <<>>]
       ELSE LET active == c1.active_transfer[1]
                r == on_chunk_data_received(active.state, transfer_id, start, end, hash, payload)
            IN [core |-> [c1 EXCEPT !.active_transfer = Some([active EXCEPT !.state = r.state])],
                res |-> r.res, body |-> r.body]

on_chunk_received(c, transfer_id, start, end, hash, payload) ==
    LET chunk_id == ChunkId(transfer_id, start, end)
        c1 == [c EXCEPT !.chunk_request_times = MapRemove(@, chunk_id)]
    IN IF c1.active_transfer = None \/ c1.active_transfer[1].state.transfer_id # transfer_id
       THEN [core |-> c1, res |-> "UnknownTransfer", body |-> <<>>]
       ELSE LET active == c1.active_transfer[1]
                r == on_chunk_data_received(active.state, transfer_id, start, end, hash, payload)
            IN IF r.res = "Complete"
               THEN [core |-> [c1 EXCEPT !.active_transfer = None],
                     res |-> "Complete", body |-> r.body]
               ELSE [core |-> [c1 EXCEPT !.active_transfer = Some([active EXCEPT !.state = r.state])],
                     res |-> r.res, body |-> <<>>]

on_peer_joined(c, peer_id) ==
    [c EXCEPT !.peers = IF Contains(@, peer_id) THEN @ ELSE Append(@, peer_id),
              !.peer_last_tick = MapInsert(@, peer_id, c.tick_count)]

\* a variant that keeps the departed peer's entries beside the new ones
redistribute_peer_chunks_keep(c, peer_left) ==
    IF c.active_transfer = None THEN [core |-> c, actions |-> <<>>]
    ELSE LET active == c.active_transfer[1]
             new_assignments == reassign_after_peer_left(active.assignment, peer_left,
                                                         workers_of(c.peers))
         IN [core |-> [c EXCEPT !.active_transfer =
                          Some([active EXCEPT !.assignment = @ \o new_assignments])],
             actions |-> [i \in 1..Len(new_assignments) |->
                            SendMessage(new_assignments[i][2],
                                        encode_frame(chunk_request_message(new_assignments[i][1])))]]

redistribute_peer_chunks(c, peer_left) ==
    IF c.active_transfer = None THEN [core |-> c, actions |-> <<>>]
    ELSE LET active == c.active_transfer[1]
             remaining == workers_of(c.peers)
             new_assignments == reassign_after_peer_left(active.assignment, peer_left, remaining)
             kept == SelectSeq(active.assignment, LAMBDA a : a[2] # peer_left)
         IN [core |-> [c EXCEPT !.active_transfer =
                          Some([active EXCEPT !.assignment = kept \o new_assignments])],
             actions |-> [i \in 1..Len(new_assignments) |->
                            SendMessage(new_assignments[i][2],
                                        encode_frame(chunk_request_message(new_assignments[i][1])))]]

on_peer_left(c, peer_id) ==
    redistribute_peer_chunks(
        [c EXCEPT !.peers = SelectSeq(@, LAMBDA p : p # peer_id),
                  !.peer_last_tick = MapRemove(@, peer_id)],
        peer_id)

on_heartbeat_received(c, peer_id) ==
    [c EXCEPT !.peer_last_tick = MapInsert(@, peer_id, c.tick_count)]

\* a variant that hands the chunk back to the peer that refused it
on_nack_back(c, peer_id, msg) ==
    LET chunk_id == ChunkId(msg.transfer_id, msg.start, msg.end)
    IN IF c.active_transfer # None /\ c.active_transfer[1].state.transfer_id = msg.transfer_id
       THEN LET active == c.active_transfer[1]
                kept == SelectSeq(active.assignment, LAMBDA a : a[1] # chunk_id)
            IN [core |-> [c EXCEPT !.active_transfer =
                             Some([active EXCEPT !.assignment = Append(kept, <<chunk_id, peer_id>>)])],
                res |-> "Ok",
                actions |-> <<SendMessage(peer_id, encode_frame(chunk_request_message(chunk_id)))>>]
       ELSE [core |-> c, res |-> "Ok", actions |-> <<>>]

\* a variant that reassigns whatever transfer the Nack names
on_nack_any_transfer(c, peer_id, msg) ==
    LET chunk_id == ChunkId(msg.transfer_id, msg.start, msg.end)
    IN IF c.active_transfer # None
       THEN LET active == c.active_transfer[1]
                remaining == <<Self>> \o SelectSeq(c.peers, LAMBDA p : p # peer_id)
                new_peer == remaining[1]
                kept == SelectSeq(active.assignment, LAMBDA a : a[1] # chunk_id)
            IN [core |-> [c EXCEPT !.active_transfer =
                             Some([active EXCEPT !.assignment = Append(kept, <<chunk_id, new_peer>>)])],
                res |-> "Ok",
                actions |-> <<SendMessage(new_peer, encode_frame(chunk_request_message(chunk_id)))>>]
       ELSE [core |-> c, res |-> "Ok", actions |-> <<>>]

\* the Nack arm of on_message_received
on_nack(c, peer_id, msg) ==
    LET chunk_id == ChunkId(msg.transfer_id, msg.start, msg.end)
    IN IF c.active_transfer # None /\ c.active_transfer[1].state.transfer_id = msg.transfer_id
       THEN LET active == c.active_transfer[1]
                remaining == <<Self>> \o SelectSeq(c.peers, LAMBDA p : p # peer_id)
                new_peer == remaining[1]
                kept == SelectSeq(active.assignment, LAMBDA a : a[1] # chunk_id)
            IN [core |-> [c EXCEPT !.active_transfer =
                             Some([active EXCEPT !.assignment = Append(kept, <<chunk_id, new_peer>>)])],
                res |-> "Ok",
                actions |-> <<SendMessage(new_peer, encode_frame(chunk_request_message(chunk_id)))>>]
       ELSE [core |-> c, res |-> "Ok", actions |-> <<>>]

on_message_received(c, peer_id, bytes) ==
    LET d == decode_frame(bytes)
        msg == d.msg
    IN IF ~d.ok THEN [core |-> c, res |-> "DecodeError", actions |-> <<>>]
       ELSE CASE msg.kind = "Heartbeat" ->
                   [core |-> on_heartbeat_received(c, msg.device_id), res |-> "Ok", actions |-> <<>>]
              [] msg.kind = "Join" ->
                   [core |-> on_peer_joined(c, msg.device_id), res |-> "Ok", actions |-> <<>>]
              [] msg.kind = "Leave" ->
                   LET r == on_peer_left(c, msg.device_id)
                   IN [core |-> r.core, res |-> "Ok", actions |-> r.actions]
              [] msg.kind = "ChunkData" ->
                   LET r == on_chunk_received(c, msg.transfer_id, msg.start, msg.end,
                                              msg.hash, msg.payload)
                   IN [core |-> r.core, res |-> "Ok",
                       actions |-> IF r.res = "Complete"
                                   THEN <<TransferComplete(msg.transfer_id, r.body)>>
                                   ELSE <<>>]
              [] msg.kind = "ChunkRequest" ->
                   [core |-> c, res |-> "Ok",
                    actions |-> <<FetchChunk(ChunkId(msg.transfer_id, msg.start, msg.end))>>]
              [] msg.kind = "Nack" -> on_nack(c, peer_id, msg)
              [] OTHER -> [core |-> c, res |-> "UnexpectedMessage", actions |-> <<>>]

\* tick, first loop: the overdue peers in the order the HashMap yielded them
RECURSIVE EvictOverdue(_, _, _)
EvictOverdue(c, overdue, actions) ==
    IF overdue = <<>> THEN [core |-> c, actions |-> actions]
    ELSE LET peer_id == overdue[1]
             r == redistribute_peer_chunks(
                      [c EXCEPT !.peers = SelectSeq(@, LAMBDA p : p # peer_id),
                                !.peer_last_tick = MapRemove(@, peer_id)],
                      peer_id)
         IN EvictOverdue(r.core, Tail(overdue), actions \o r.actions)

\* tick, second loop: the timed-out chunk requests in the order the HashMap yielded them
RECURSIVE ReassignTimedOut(_, _, _)
ReassignTimedOut(c, timed_out, actions) ==
    IF timed_out = <<>> THEN [core |-> c, actions |-> actions]
    ELSE LET chunk_id == timed_out[1]
             c1 == [c EXCEPT !.chunk_request_times = MapRemove(@, chunk_id)]
         IN IF c1.active_transfer # None
               /\ c1.active_transfer[1].state.transfer_id = chunk_id.transfer_id
            THEN LET active == c1.active_transfer[1]
                     workers == workers_of(c1.peers)
                     new_peer == workers[1]
                     kept == SelectSeq(active.assignment, LAMBDA a : a[1] # chunk_id)
                     c2 == [c1 EXCEPT !.active_transfer =
                              Some([active EXCEPT !.assignment = Append(kept, <<chunk_id, new_peer>>)])]
                 IN ReassignTimedOut(c2, Tail(timed_out),
                        Append(actions, SendMessage(new_peer,
                                           encode_frame(chunk_request_message(chunk_id)))))
            ELSE ReassignTimedOut(c1, Tail(timed_out), actions)

\* a variant that evicts one tick early
OverduePeers_early(c) ==
    {p \in DOMAIN c.peer_last_tick :
        SatSub(c.tick_count, c.peer_last_tick[p]) >= HEARTBEAT_TIMEOUT_TICKS}

OverduePeers(c) ==
    {p \in DOMAIN c.peer_last_tick :
        SatSub(c.tick_count, c.peer_last_tick[p]) > HEARTBEAT_TIMEOUT_TICKS}

TimedOutChunks(c) ==
    {k \in DOMAIN c.chunk_request_times :
        SatSub(c.tick_count, c.chunk_request_times[k]) > DEFAULT_CHUNK_TIMEOUT_TICKS}

\* a variant that sends the heartbeats before it reassigns
tick_heartbeats_first(c, overdue, timed_out) ==
    LET c0 == [c EXCEPT !.tick_count = SatAdd(@, 1)]
        r1 == EvictOverdue(c0, overdue, <<>>)
        r2 == ReassignTimedOut(r1.core, timed_out, r1.actions)
        heartbeats == [i \in 1..Len(r2.core.peers) |->
                         SendMessage(r2.core.peers[i], encode_frame(Heartbeat(Self)))]
    IN [core |-> r2.core, actions |-> heartbeats \o r2.actions]

\* overdue and timed_out: the orders the two HashMap iterations take
tick(c, overdue, timed_out) ==
    LET c0 == [c EXCEPT !.tick_count = SatAdd(@, 1)]
        r1 == EvictOverdue(c0, overdue, <<>>)
        r2 == ReassignTimedOut(r1.core, timed_out, r1.actions)
        heartbeats == [i \in 1..Len(r2.core.peers) |->
                         SendMessage(r2.core.peers[i], encode_frame(Heartbeat(Self)))]
    IN [core |-> r2.core, actions |-> r2.actions \o heartbeats]

current_assignment(c) ==
    IF c.active_transfer = None THEN None ELSE Some(c.active_transfer[1].assignment)

-----------------------------------------------------------------------------
(* The state machine *)

Core ==
    [peers |-> peers, peer_last_tick |-> peer_last_tick, tick_count |-> tick_count,
     active_transfer |-> active_transfer, chunk_request_times |-> chunk_request_times,
     next_transfer |-> next_transfer]

SetCore(c) ==
    /\ peers' = c.peers
    /\ peer_last_tick' = c.peer_last_tick
    /\ tick_count' = c.tick_count
    /\ active_transfer' = c.active_transfer
    /\ chunk_request_times' = c.chunk_request_times
    /\ next_transfer' = c.next_transfer

\* no call of split_into_chunks yet
NoSplit == [pc |-> "idle", build |-> "", total_len |-> 0, chunk_size |-> 0,
            size |-> 0, start |-> 0, out |-> <<>>]

NoSched == [chunk_ids |-> <<>>, workers |-> <<>>, out |-> <<>>, called |-> FALSE]

\* an empty stream, nothing written to it or read from it
NoWire == [buf |-> <<>>, pos |-> 0, sent |-> <<>>, got |-> <<>>, tailed |-> FALSE, res |-> ""]

\* a connection just after the handshake: both nonce counters at 0, nothing
\* on the stream; used holds the nonce each frame was encrypted with
NoConn == [write_nonce |-> 0, read_nonce |-> 0, stream |-> <<>>, used |-> <<>>,
           accepted |-> <<>>, open |-> TRUE]

\* no call of assign_chunks_with_metrics yet
NoMetr == [chunk_ids |-> <<>>, peers |-> <<>>, metrics |-> EmptyMap, max_failures |-> 0,
           out |-> <<>>, called |-> FALSE]

\* the connections the proxy serves at once
ProxyClients == {"c1", "c2"}

\* a connection whose request was not read yet: no transfer, no waiter, no
\* response written
NoClient == [pc |-> "accepted", transfer |-> 0, assignment |-> <<>>, i |-> 1,
             waiter |-> "none", response |-> "none"]

\* the two ends of a TCP connection between two devices: the one that ran
\* handshake_connect and the one that ran handshake_accept
LinkEnds == {"dial", "accept"}

\* two devices before their first connection: conns counts the connections
\* made so far; key, write_nonce and read_nonce are each end's locals in
\* run_connection; stream[e] holds what end e wrote and the other end has
\* not read; sent is every ciphertext either device has put on a wire
NoLink == [conns |-> 0, open |-> FALSE,
           device |-> [e \in LinkEnds |-> ""],
           key |-> [e \in LinkEnds |-> <<>>],
           write_nonce |-> [e \in LinkEnds |-> 0],
           read_nonce |-> [e \in LinkEnds |-> 0],
           stream |-> [e \in LinkEnds |-> <<>>],
           sent |-> {}]

\* no request is with a worker, none was abandoned; beat is the parity of
\* the passes the timer loop has made
NoHost == [net |-> {}, losses |-> 0, beat |-> 0,
           clients |-> [cl \in ProxyClients |-> NoClient],
           link |-> NoLink]

Init ==
    /\ peers = PeaPodCore_new.peers
    /\ peer_last_tick = PeaPodCore_new.peer_last_tick
    /\ tick_count = PeaPodCore_new.tick_count
    /\ active_transfer = PeaPodCore_new.active_transfer
    /\ chunk_request_times = PeaPodCore_new.chunk_request_times
    /\ next_transfer = PeaPodCore_new.next_transfer
    /\ sched = NoSched
    /\ split = NoSplit
    /\ xfer = TransferState_new(1, XferTotal, split_into_chunks(1, XferTotal, XferChunk))
    /\ wire = NoWire
    /\ conn = NoConn
    /\ metr = NoMetr
    /\ host = NoHost
    /\ failed_from = [p \in PeerIds |-> 0]
    /\ rejected = {}
    /\ last = NoCall

(* Inputs *)

Url(scheme, rest) == [scheme |-> scheme, rest |-> rest]
Urls == {Url("http", "//x/f"), Url("HTTPS", "//x/f"), Url("ftp", "//x/f")}
HttpUrl == Url("http", "//x/f")

\* None, a degenerate range (end < start), and a range of n chunks
RangeInputs(n) ==
    {None, Some(<<5, 3>>), Some(<<0, (n - 1) * DEFAULT_CHUNK_SIZE>>)}

\* the chunk ranges requests of up to n chunks plan
ChunkRanges(n) ==
    {<<j * DEFAULT_CHUNK_SIZE, (j + 1) * DEFAULT_CHUNK_SIZE>> : j \in 0..(n - 2)}
    \cup {<<k * DEFAULT_CHUNK_SIZE, k * DEFAULT_CHUNK_SIZE + 1>> : k \in 0..(n - 1)}

TransferIds == 1..MaxTransfers

ChunkInputs == {ChunkId(t, r[1], r[2]) : t \in TransferIds, r \in ChunkRanges(MaxChunks)}

\* the bytes of the body a chunk covers
TruePayload(start, end) == ByteRun("B", start, end - start)
\* as many bytes of other content
TamperedPayload(start, end) == ByteRun("X", start, end - start)
\* the body's bytes, one short
ShortPayload(start, end) == ByteRun("B", start, end - start - 1)

PayloadInputs(start, end) ==
    {TruePayload(start, end), TamperedPayload(start, end), ShortPayload(start, end)}

HashInputs(payload) == {hash_chunk(payload), ZeroHash}

LongPeers == {PeerNames[i] : i \in 1..LongNumPeers}

(* Actions: one per call of the event API *)

OnIncomingRequestWithMetadata(metadata) ==
    /\ next_transfer <= MaxTransfers
    /\ LET r == on_incoming_request_with_metadata(Core, metadata)
       IN /\ SetCore(r.core)
          /\ last' = [NoCall EXCEPT !.op = "on_incoming_request_with_metadata", !.res = r.res,
                                    !.assignment = r.assignment]
    /\ UNCHANGED direct

OnIncomingRequest(url, range) ==
    /\ next_transfer <= MaxTransfers
    /\ LET r == on_incoming_request(Core, url, range)
       IN /\ SetCore(r.core)
          /\ last' = [NoCall EXCEPT !.op = "on_incoming_request", !.res = r.res,
                                    !.assignment = r.assignment]
    /\ UNCHANGED direct

MarkChunkRequested(chunk_id) ==
    /\ SetCore(mark_chunk_requested(Core, chunk_id))
    /\ last' = [NoCall EXCEPT !.op = "mark_chunk_requested"]
    /\ UNCHANGED direct

\* the receipt repeats one the active transfer already holds: same chunk,
\* same payload, with a hash that verifies
AlreadyHeld(c, transfer_id, start, end, hash, payload) ==
    /\ c.active_transfer # None
    /\ c.active_transfer[1].state.transfer_id = transfer_id
    /\ verify_chunk(payload, hash)
    /\ ChunkId(transfer_id, start, end) \in DOMAIN c.active_transfer[1].state.received
    /\ c.active_transfer[1].state.received[ChunkId(transfer_id, start, end)] = payload

OnChunkReceived(transfer_id, start, end, hash, payload) ==
    /\ LET r == on_chunk_received(Core, transfer_id, start, end, hash, payload)
       IN /\ SetCore(r.core)
          /\ last' = [NoCall EXCEPT !.op = "on_chunk_received", !.res = r.res,
                                    !.body = r.body,
                                    !.repeat = AlreadyHeld(Core, transfer_id, start, end,
                                                           hash, payload)]
    /\ UNCHANGED direct

OnPeerJoined(peer_id) ==
    /\ SetCore(on_peer_joined(Core, peer_id))
    /\ last' = [NoCall EXCEPT !.op = "on_peer_joined", !.peer = peer_id]
    /\ UNCHANGED direct

OnPeerLeft(peer_id) ==
    /\ LET r == on_peer_left(Core, peer_id)
       IN /\ SetCore(r.core)
          /\ last' = [NoCall EXCEPT !.op = "on_peer_left", !.peer = peer_id,
                                    !.actions = r.actions]
    /\ UNCHANGED direct

OnHeartbeatReceived(peer_id) ==
    /\ SetCore(on_heartbeat_received(Core, peer_id))
    /\ last' = [NoCall EXCEPT !.op = "on_heartbeat_received", !.peer = peer_id]
    /\ UNCHANGED direct

OnMessageReceived(peer_id, bytes) ==
    /\ LET r == on_message_received(Core, peer_id, bytes)
       IN /\ SetCore(r.core)
          /\ last' = [NoCall EXCEPT !.op = "on_message_received", !.res = r.res,
                                    !.peer = peer_id, !.kind = bytes.msg.kind,
                                    !.actions = r.actions]
    /\ UNCHANGED direct

Tick(bound) ==
    /\ tick_count < bound
    /\ LET c0 == [Core EXCEPT !.tick_count = @ + 1]
       IN \E overdue \in Orders(OverduePeers(c0)), timed_out \in Orders(TimedOutChunks(c0)) :
            LET r == tick(Core, overdue, timed_out)
            IN /\ SetCore(r.core)
               /\ last' = [NoCall EXCEPT !.op = "tick", !.actions = r.actions]
    /\ UNCHANGED direct

\* a direct call of the scheduler
AssignChunksToPeers(chunk_ids, workers) ==
    /\ sched' = [chunk_ids |-> chunk_ids, workers |-> workers,
                 out |-> assign_chunks_to_peers(chunk_ids, workers), called |-> TRUE]
    /\ UNCHANGED <<core_vars, split, xfer, wire, conn, metr>>

(* History variables: what was seen, kept beside the Coordinator *)

NoHistory == UNCHANGED <<failed_from, rejected>>

Quiet == NoHistory /\ UNCHANGED host

\* a ChunkData frame for the active transfer that fails verification counts
\* against the peer that sent it
IntegrityFailure(msg) ==
    /\ msg.kind = "ChunkData"
    /\ active_transfer # None
    /\ active_transfer[1].state.transfer_id = msg.transfer_id
    /\ ~verify_chunk(msg.payload, msg.hash)

Charge(peer_id, msg) ==
    /\ failed_from' = IF IntegrityFailure(msg)
                         /\ failed_from[peer_id] < DEFAULT_MAX_INTEGRITY_FAILURES
                      THEN [failed_from EXCEPT ![peer_id] = @ + 1]
                      ELSE failed_from
    /\ UNCHANGED <<rejected, host>>

\* the receipts of the transfer in progress, or just completed, that failed verification
NoteRejected(transfer_id, start, end, hash, payload) ==
    /\ rejected' = IF /\ active_transfer # None
                      /\ active_transfer[1].state.transfer_id = transfer_id
                      /\ ~verify_chunk(payload, hash)
                   THEN rejected \cup {[chunk |-> ChunkId(transfer_id, start, end),
                                        payload |-> payload]}
                   ELSE rejected
    /\ UNCHANGED <<failed_from, host>>

ForgetRejected(url, range) ==
    /\ rejected' = IF on_incoming_request(Core, url, range).res = "Accelerate"
                   THEN {} ELSE rejected
    /\ UNCHANGED <<failed_from, host>>

-----------------------------------------------------------------------------
(* Spec: the host's calls of the event API *)

Next ==
    \/ \E url \in Urls, range \in RangeInputs(MaxChunks) : OnIncomingRequest(url, range) /\ Quiet
    \/ \E k \in ChunkInputs : \E payload \in PayloadInputs(k.start, k.end) :
         \E hash \in HashInputs(payload) :
            OnChunkReceived(k.transfer_id, k.start, k.end, hash, payload) /\ Quiet
    \/ \E p \in PeerIds : OnPeerJoined(p) /\ Quiet
    \/ \E p \in PeerIds : OnPeerLeft(p) /\ Quiet
    \/ \E p \in PeerIds : OnHeartbeatReceived(p) /\ Quiet
    \/ Tick(MaxTick) /\ Quiet

Spec == Init /\ [][Next]_vars


(* What the claims speak of *)

Max(a, b) == IF a >= b THEN a ELSE b

\* the bytes at positions from..to-1 of p, p starting at position pos
RECURSIVE SliceFrom(_, _, _, _)
SliceFrom(p, pos, from, to) ==
    IF p = <<>> THEN <<>>
    ELSE LET a == p[1]
             lo == Max(pos, from)
             hi == Min(pos + a.len, to)
         IN ExtendFromSlice(ByteRun(a.src, a.off + (lo - pos), hi - lo),
                            SliceFrom(Tail(p), pos + a.len, from, to))

Slice(p, from, to) == SliceFrom(p, 0, from, to)

\* the body B of length n
Body(n) == ByteRun("B", 0, n)

\* the payloads held for the chunks ids, one after the other
RECURSIVE ConcatPayloads(_, _)
ConcatPayloads(ids, received) ==
    IF ids = <<>> THEN <<>>
    ELSE ExtendFromSlice(received[ids[1]], ConcatPayloads(Tail(ids), received))

PlannedChunks(state) == {state.chunk_ids[i] : i \in 1..Len(state.chunk_ids)}

\* every planned chunk held is held with the bytes of B it covers
HoldsOnlyBody(state) ==
    \A k \in PlannedChunks(state) \cap DOMAIN state.received :
        state.received[k] = TruePayload(k.start, k.end)

SchemeLower(scheme) ==
    CASE scheme = "HTTP" -> "http"
      [] scheme = "HTTPS" -> "https"
      [] scheme = "FTP" -> "ftp"
      [] OTHER -> scheme

IsHttpUrl(url) == SchemeLower(url.scheme) \in {"http", "https"}

Degenerate(range) == range # None /\ range[1][2] < range[1][1]

(* C1: while every planned chunk held so far holds the bytes of B it covers,
   delivering any planned chunk (held already or not) with those bytes and
   their SHA-256 hash returns in-progress as long as another planned chunk is
   still missing, and returns the completed body B when it is the last one
   missing. *)
C1_TrueDeliveriesReassembleBody ==
    active_transfer # None =>
        LET st == active_transfer[1].state
            missing == PlannedChunks(st) \ DOMAIN st.received
        IN HoldsOnlyBody(st) =>
             \A k \in PlannedChunks(st) :
                LET payload == TruePayload(k.start, k.end)
                    r == on_chunk_received(Core, k.transfer_id, k.start, k.end,
                                           hash_chunk(payload), payload)
                IN IF missing \subseteq {k}
                   THEN r.res = "Complete" /\ r.body = Body(st.total_length)
                   ELSE r.res = "InProgress" /\ r.body = <<>>

\* a transfer of MaxChunks chunks has completed with the body B
C1_Witness ==
    /\ last.op = "on_chunk_received"
    /\ last.res = "Complete"
    /\ last.body = Body((MaxChunks - 1) * DEFAULT_CHUNK_SIZE + 1)

(* C3: a receipt of a planned chunk with a payload and that payload's hash
   that completes the transfer returns a body whose length is the transfer's
   total_length. *)
C3_CompletedBodyHasTotalLength ==
    active_transfer # None =>
        LET st == active_transfer[1].state
        IN \A k \in PlannedChunks(st) : \A payload \in PayloadInputs(k.start, k.end) :
              LET r == on_chunk_received(Core, k.transfer_id, k.start, k.end,
                                         hash_chunk(payload), payload)
              IN r.res = "Complete" => ByteLen(r.body) = st.total_length

(* C6: with an empty peer set on_incoming_request returns Fallback for every
   URL and range, creates no transfer, and leaves the active transfer, its
   assignment and the peer table as they were. *)
C6_NoPeersFallback ==
    peers = <<>> =>
        \A url \in Urls, range \in RangeInputs(MaxChunks) :
            LET r == on_incoming_request(Core, url, range)
            IN /\ r.res = "Fallback"
               /\ r.transfer = None
               /\ r.core.next_transfer = next_transfer
               /\ r.core.active_transfer = active_transfer
               /\ current_assignment(r.core) = current_assignment(Core)
               /\ r.core.peers = peers
               /\ r.core.peer_last_tick = peer_last_tick

\* a request fell back on an empty pod while a transfer planned earlier is active
C6_Witness ==
    /\ last.op = "on_incoming_request"
    /\ last.res = "Fallback"
    /\ peers = <<>>
    /\ active_transfer # None

(* C7: on_incoming_request returns Fallback for every URL whose scheme,
   lower-cased, is neither http nor https, whatever the peers and the range. *)
C7_NonHttpFallback ==
    \A url \in Urls, range \in RangeInputs(MaxChunks) :
        ~IsHttpUrl(url) => on_incoming_request(Core, url, range).res = "Fallback"

(* C8: on_incoming_request returns Fallback and creates no transfer when the
   range is absent or degenerate (end < start), peers or no peers. *)
C8_NoRangeFallback ==
    \A url \in Urls, range \in RangeInputs(MaxChunks) :
        (range = None \/ Degenerate(range)) =>
            LET r == on_incoming_request(Core, url, range)
            IN /\ r.res = "Fallback"
               /\ r.transfer = None
               /\ r.core.active_transfer = active_transfer


-----------------------------------------------------------------------------
(* RejectSpec: receipts for one transfer after another, with the record of
   the receipts that failed verification *)

FullPayloads(start, end) == {TruePayload(start, end), TamperedPayload(start, end)}

FullRange == Some(<<0, (MaxChunks - 1) * DEFAULT_CHUNK_SIZE>>)

\* the chunks a request for FullRange plans, for each transfer id
FullChunkInputs ==
    UNION {PlannedChunks(TransferState_new(t, FullRange[1][2] + 1,
              split_into_chunks(t, FullRange[1][2] + 1, DEFAULT_CHUNK_SIZE))) :
           t \in TransferIds}

NextReject ==
    \/ \E p \in PeerIds : OnPeerJoined(p) /\ Quiet
    \/ OnIncomingRequest(HttpUrl, FullRange) /\ ForgetRejected(HttpUrl, FullRange)
    \/ \E k \in FullChunkInputs : \E payload \in FullPayloads(k.start, k.end) :
         \E hash \in HashInputs(payload) :
            /\ OnChunkReceived(k.transfer_id, k.start, k.end, hash, payload)
            /\ NoteRejected(k.transfer_id, k.start, k.end, hash, payload)

RejectSpec == Init /\ [][NextReject]_vars

(* C2, as the claim has it: a payload whose receipt failed verification is at
   its chunk's place in no body the transfer returns later. *)
C2_RejectedPayloadNeverInBody ==
    (last.op = "on_chunk_received" /\ last.res = "Complete") =>
        \A x \in rejected : Slice(last.body, x.chunk.start, x.chunk.end) # x.payload

(* C2: a receipt whose payload does not verify against its hash resolves to
   IntegrityFailed and leaves the received set as it was; the received set
   changes only by a receipt whose hash verifies, which admits that receipt's
   payload at its chunk; and a completed body is the payloads so admitted, in
   chunk order.  (The same payload delivered again with a hash that verifies
   is admitted.) *)
C2_OnlyVerifiedReceiptsAdmitted ==
    active_transfer # None =>
        LET st == active_transfer[1].state
        IN \A k \in ChunkInputs : \A payload \in PayloadInputs(k.start, k.end) :
             \A hash \in HashInputs(payload) :
                k.transfer_id = st.transfer_id =>
                   LET r == on_chunk_received(Core, k.transfer_id, k.start, k.end, hash, payload)
                       d == on_chunk_data_received(st, k.transfer_id, k.start, k.end, hash, payload)
                   IN IF ~verify_chunk(payload, hash)
                      THEN /\ r.res = "IntegrityFailed"
                           /\ r.body = <<>>
                           /\ r.core.active_transfer # None
                           /\ r.core.active_transfer[1].state.received = st.received
                           /\ d.state.received = st.received
                      ELSE /\ r.res \in {"InProgress", "Complete"}
                           /\ d.state.received = MapInsert(st.received, k, payload)
                           /\ r.res = "Complete" =>
                                 r.body = ConcatPayloads(st.chunk_ids, d.state.received)

\* a receipt has just failed verification and its chunk is still missing
C2_Witness ==
    /\ last.op = "on_chunk_received"
    /\ last.res = "IntegrityFailed"
    /\ active_transfer # None
    /\ \E x \in rejected : /\ x.chunk \in PlannedChunks(active_transfer[1].state)
                           /\ x.chunk \notin DOMAIN active_transfer[1].state.received

-----------------------------------------------------------------------------
(* SchedSpec: planning over a changing pod, and the scheduler called alone *)

WorkerLists == UNION {Orders(W) : W \in SUBSET Devices}

SchedChunkLists == {split_into_chunks(1, n, 1) : n \in 0..SchedMaxChunks}

NextSched ==
    \/ \E p \in PeerIds : OnPeerJoined(p) /\ Quiet
    \/ \E p \in PeerIds : OnPeerLeft(p) /\ Quiet
    \/ \E range \in RangeInputs(SchedMaxChunks) : OnIncomingRequest(HttpUrl, range) /\ Quiet
    \/ \E chunk_ids \in SchedChunkLists, workers \in WorkerLists :
          AssignChunksToPeers(chunk_ids, workers) /\ Quiet

SchedSpec == Init /\ [][NextSched]_vars

\* chunk i (from 1) goes to workers[i - 1 mod |workers|] (from 0)
RoundRobin(assignment, chunk_ids, workers) ==
    /\ Len(assignment) = Len(chunk_ids)
    /\ \A i \in 1..Len(chunk_ids) :
          /\ assignment[i][1] = chunk_ids[i]
          /\ assignment[i][2] = workers[((i - 1) % Len(workers)) + 1]

\* the planned chunks tile [0, total_length) in sequence order
InSequenceOrder(state) ==
    \A i \in 1..Len(state.chunk_ids) :
        /\ state.chunk_ids[i].start = (i - 1) * DEFAULT_CHUNK_SIZE
        /\ state.chunk_ids[i].end = Min(i * DEFAULT_CHUNK_SIZE, state.total_length)

(* C4: an Accelerate returns the planned chunks in sequence order, chunk i
   assigned to workers[i mod |workers|] where workers is the local device
   followed by the peers in the order they joined (a join appends a new peer,
   a leave removes one and keeps the order of the rest); the scheduler given
   no workers returns an empty assignment. *)
C4_RoundRobinFromSelf ==
    /\ (last.op = "on_incoming_request" /\ last.res = "Accelerate") =>
          /\ active_transfer # None
          /\ InSequenceOrder(active_transfer[1].state)
          /\ RoundRobin(last.assignment, active_transfer[1].state.chunk_ids, <<Self>> \o peers)
          /\ current_assignment(Core) = Some(last.assignment)
    /\ \A p \in PeerIds :
          /\ on_peer_joined(Core, p).peers =
                IF Contains(peers, p) THEN peers ELSE peers \o <<p>>
          /\ on_peer_left(Core, p).core.peers = SelectSeq(peers, LAMBDA q : q # p)
    /\ sched.called =>
          IF sched.workers = <<>> THEN sched.out = <<>>
          ELSE RoundRobin(sched.out, sched.chunk_ids, sched.workers)

\* SchedMaxChunks chunks were planned over self and two peers that joined in
\* the order p2, p1, after the scheduler was called with no workers
C4_Witness ==
    /\ last.op = "on_incoming_request"
    /\ last.res = "Accelerate"
    /\ Len(last.assignment) = SchedMaxChunks
    /\ peers = <<"p2", "p1">>
    /\ sched.called
    /\ sched.workers = <<>>
    /\ sched.chunk_ids # <<>>

-----------------------------------------------------------------------------
(* IsoSpec: ChunkData frames from the peers, with the count of those that
   failed verification *)

ChunkDataInputs ==
    {ChunkData(k, hash_chunk(TruePayload(k.start, k.end)), TruePayload(k.start, k.end)) :
        k \in ChunkInputs}
    \cup {ChunkData(k, ZeroHash, TruePayload(k.start, k.end)) : k \in ChunkInputs}

\* the proper prefixes of a byte string
Truncations(bytes) == {SubSeq(bytes, 1, n) : n \in 0..(Len(bytes) - 1)}

\* bytes that are no complete, well-formed frame: too few for a length, a
\* length above the cap, a length the bytes do not fill, a variant index
\* that names no variant, a device id that is not 16 bytes long, a payload
\* that ends inside a field
UndecodableBytes ==
    {<<>>, <<255, 255>>, <<1, 0, 0, 1>>, <<255, 255, 255, 255>>, <<9, 0, 0, 0, 4, 0>>,
     <<4, 0, 0, 0, 8, 0, 0, 0>>, <<4, 0, 0, 0, 4, 0, 0, 1>>,
     LeBytes(27, 4) \o LeBytes(2, 4) \o LeBytes(15, 8) \o [i \in 1..15 |-> 7],
     LeBytes(29, 4) \o LeBytes(4, 4) \o LeBytes(17, 8) \o [i \in 1..17 |-> 7],
     LeBytes(10, 4) \o LeBytes(4, 4) \o LeBytes(16, 8) \o <<7, 7>>}
    \cup Truncations(wire_encode_frame([kind |-> "Heartbeat", device_id |-> [i \in 1..16 |-> 7]]).bytes)
    \cup Truncations(wire_encode_frame([kind |-> "ChunkData", transfer_id |-> [i \in 1..16 |-> 1],
                                        start |-> 0, end |-> 2, hash |-> [i \in 1..32 |-> 9],
                                        payload |-> <<66, 66>>]).bytes)

NextIso ==
    \/ \E p \in PeerIds : OnPeerJoined(p) /\ Quiet
    \/ OnIncomingRequest(HttpUrl, FullRange) /\ Quiet
    \/ \E p \in PeerIds, msg \in ChunkDataInputs :
          OnMessageReceived(p, encode_frame(msg)) /\ Charge(p, msg)
    \/ \E p \in PeerIds, bytes \in UndecodableBytes :
          OnMessageReceived(p, FrameOfBytes(bytes)) /\ Quiet

IsoSpec == Init /\ [][NextIso]_vars

(* C9: a peer that has sent DEFAULT_MAX_INTEGRITY_FAILURES ChunkData frames
   that failed verification is not in the peer set and is assigned no chunk. *)
C9_FailingPeerIsolated ==
    \A p \in PeerIds :
        failed_from[p] >= DEFAULT_MAX_INTEGRITY_FAILURES =>
            /\ ~Contains(peers, p)
            /\ active_transfer # None =>
                  \A i \in 1..Len(active_transfer[1].assignment) :
                      active_transfer[1].assignment[i][2] # p

-----------------------------------------------------------------------------
(* HeartbeatSpec: joins, heartbeats and ticks around one transfer *)

NextHeartbeat ==
    \/ \E p \in PeerIds : OnPeerJoined(p) /\ Quiet
    \/ \E p \in PeerIds : OnHeartbeatReceived(p) /\ Quiet
    \/ OnIncomingRequest(HttpUrl, FullRange) /\ Quiet
    \/ Tick(HbMaxTick) /\ Quiet

HeartbeatSpec == Init /\ [][NextHeartbeat]_vars

(* C10: the peers a tick leaves in the peer set are those of the peers before
   it whose last-seen tick is at most HEARTBEAT_TIMEOUT_TICKS behind the
   advanced tick count: last seen at t, a peer survives the ticks up to
   t + 5 and is removed by the tick that reaches t + 6. *)
C10_EvictedIffSilentTooLong ==
    LET c0 == [Core EXCEPT !.tick_count = @ + 1]
    IN /\ \A overdue \in Orders(OverduePeers(c0)), timed_out \in Orders(TimedOutChunks(c0)) :
            LET r == tick(Core, overdue, timed_out)
            IN /\ r.core.tick_count = tick_count + 1
               /\ r.core.peers =
                     SelectSeq(peers, LAMBDA p :
                        (tick_count + 1) - peer_last_tick[p] <= HEARTBEAT_TIMEOUT_TICKS)
       /\ \A i \in 1..Len(peers) : tick_count - peer_last_tick[peers[i]] <= HEARTBEAT_TIMEOUT_TICKS

\* the tick reaching 6 kept p2, last seen at tick 1, and evicted the other
\* peer, whose chunks it handed on
C10_Witness ==
    /\ last.op = "tick"
    /\ tick_count = HEARTBEAT_TIMEOUT_TICKS + 1
    /\ peers = <<"p2">>
    /\ peer_last_tick["p2"] = tick_count - HEARTBEAT_TIMEOUT_TICKS
    /\ DOMAIN peer_last_tick = {"p2"}
    /\ active_transfer # None
    /\ \E i \in 1..Len(last.actions) : last.actions[i].bytes.msg.kind = "ChunkRequest"

-----------------------------------------------------------------------------
(* LongSpec: one peer and one transfer after another through a chunk timeout *)

\* the chunks of the transfers LongSpec plans
LongChunkInputs == {k \in FullChunkInputs : k.transfer_id <= LongMaxTransfers}

NextLong ==
    \/ \E p \in LongPeers : OnPeerJoined(p) /\ Quiet
    \/ \E p \in LongPeers : OnPeerLeft(p) /\ Quiet
    \/ next_transfer <= LongMaxTransfers /\ OnIncomingRequest(HttpUrl, FullRange) /\ Quiet
    \/ \E k \in LongChunkInputs :
          /\ active_transfer # None
          /\ k \in PlannedChunks(active_transfer[1].state)
          /\ tick_count <= LongMarkTick
          /\ MarkChunkRequested(k) /\ Quiet
    \/ \E k \in LongChunkInputs :
          LET payload == TruePayload(k.start, k.end)
          IN OnChunkReceived(k.transfer_id, k.start, k.end, hash_chunk(payload), payload) /\ Quiet
    \/ \E p \in LongPeers, k \in ChunkInputs :
          /\ k.transfer_id <= LongMaxTransfers
          /\ OnMessageReceived(p, encode_frame(Nack(k))) /\ Quiet
    \/ Tick(LongMaxTick) /\ Quiet

LongSpec == Init /\ [][NextLong]_vars

(* C5: while a transfer is active, each of its planned chunks is the chunk of
   exactly one entry of current_assignment(). *)
C5_PlannedChunksAssignedOnce ==
    active_transfer # None =>
        LET assignment == current_assignment(Core)[1]
        IN \A k \in PlannedChunks(active_transfer[1].state) :
              Cardinality({i \in 1..Len(assignment) : assignment[i][1] = k}) = 1

\* the tick past the chunk timeout handed a chunk requested at tick 0 to the
\* local device while the peer was still in the pod
C5_Witness ==
    /\ last.op = "tick"
    /\ tick_count = DEFAULT_CHUNK_TIMEOUT_TICKS + 1
    /\ active_transfer # None
    /\ peers # <<>>
    /\ \E i \in 1..Len(last.actions) :
          /\ last.actions[i].bytes.msg.kind = "ChunkRequest"
          /\ last.actions[i].peer = Self
          /\ active_transfer[1].assignment[Len(active_transfer[1].assignment)]
                = <<ChunkId(last.actions[i].bytes.msg.transfer_id,
                            last.actions[i].bytes.msg.start,
                            last.actions[i].bytes.msg.end), Self>>

-----------------------------------------------------------------------------
(* Claims on SchedSpec: a peer leaving while a transfer is active *)

\* the chunks whose entry of assignment names peer
ChunksOf(assignment, peer) ==
    {assignment[i][1] : i \in {j \in 1..Len(assignment) : assignment[j][2] = peer}}

\* actions is one ChunkRequest SendMessage per chunk of chunks, none to peer
RequestsEachOnce(actions, chunks, peer) ==
    /\ Len(actions) = Cardinality(chunks)
    /\ \A i \in 1..Len(actions) :
          /\ actions[i].kind = "SendMessage"
          /\ actions[i].peer # peer
          /\ actions[i].bytes.ok
          /\ actions[i].bytes.msg.kind = "ChunkRequest"
    /\ \A k \in chunks :
          Cardinality({i \in 1..Len(actions) :
                          actions[i].bytes.msg = chunk_request_message(k)}) = 1

LeftCleanly(r, p) ==
    /\ ~Contains(r.core.peers, p)
    /\ r.core.active_transfer # None
    /\ ChunksOf(current_assignment(r.core)[1], p) = {}
    /\ RequestsEachOnce(r.actions, ChunksOf(active_transfer[1].assignment, p), p)

(* C11: while a transfer is active, on_peer_left(P) for a peer P of the peer
   set, and likewise a Leave frame for P, leaves P out of the peer set, leaves
   no entry of current_assignment() naming P, and returns one ChunkRequest
   SendMessage for each chunk that was assigned to P, none addressed to P. *)
C11_LeaveHandsChunksOn ==
    active_transfer # None =>
        \A i \in 1..Len(peers) :
            LET p == peers[i]
                m == on_message_received(Core, p, encode_frame(Leave(p)))
            IN /\ LeftCleanly(on_peer_left(Core, p), p)
               /\ m.res = "Ok"
               /\ LeftCleanly(m, p)

\* a peer holding chunks left while another stayed, and requests went out
C11_Witness ==
    /\ last.op = "on_peer_left"
    /\ active_transfer # None
    /\ ~Contains(peers, last.peer)
    /\ peers # <<>>
    /\ Len(last.actions) >= 1
    /\ \E i \in 1..Len(last.actions) : last.actions[i].peer # Self

-----------------------------------------------------------------------------
(* Claims on Spec: completion, duplicates and replacement *)

\* a transfer id minted earlier that is not the active transfer's
Retired(transfer_id) ==
    /\ transfer_id < next_transfer
    /\ active_transfer = None \/ active_transfer[1].state.transfer_id # transfer_id

(* C12: a verified receipt completes the active transfer exactly when it
   supplies the last missing planned chunk; it then returns the body and
   clears the active transfer, so current_assignment() is None; and every
   chunk carrying a transfer id that is no longer active is answered
   UnknownTransfer, so no transfer id yields a second body. *)
C12_CompletesOnceThenUnknown ==
    /\ active_transfer # None =>
          LET st == active_transfer[1].state
              missing == PlannedChunks(st) \ DOMAIN st.received
          IN \A k \in ChunkInputs : \A payload \in PayloadInputs(k.start, k.end) :
                k.transfer_id = st.transfer_id =>
                   LET r == on_chunk_received(Core, k.transfer_id, k.start, k.end,
                                              hash_chunk(payload), payload)
                   IN IF missing \subseteq {k}
                      THEN /\ r.res = "Complete"
                           /\ r.body = ConcatPayloads(st.chunk_ids,
                                                      MapInsert(st.received, k, payload))
                           /\ r.core.active_transfer = None
                           /\ current_assignment(r.core) = None
                           /\ \A k2 \in ChunkInputs : \A hash2 \in HashInputs(payload) :
                                 k2.transfer_id = k.transfer_id =>
                                    on_chunk_received(r.core, k2.transfer_id, k2.start, k2.end,
                                                      hash2, payload).res = "UnknownTransfer"
                      ELSE /\ r.res = "InProgress"
                           /\ r.core.active_transfer # None
    /\ \A k \in ChunkInputs : \A payload \in PayloadInputs(k.start, k.end) :
          \A hash \in HashInputs(payload) :
             Retired(k.transfer_id) =>
                LET r == on_chunk_received(Core, k.transfer_id, k.start, k.end, hash, payload)
                IN /\ r.res = "UnknownTransfer"
                   /\ r.body = <<>>
                   /\ r.core.active_transfer = active_transfer
    /\ (last.op = "on_chunk_received" /\ last.res = "Complete") => active_transfer = None

\* a chunk arrived for a transfer that had completed, and was answered UnknownTransfer
C12_Witness ==
    /\ last.op = "on_chunk_received"
    /\ last.res = "UnknownTransfer"
    /\ active_transfer = None
    /\ next_transfer > 1

(* C13: while a transfer is in progress, a receipt that repeats one already
   held (same chunk, same payload, its hash) returns in-progress and leaves
   the received set, the assignment and the peer table as they were. *)
C13_RepeatedReceiptIsNoOp ==
    active_transfer # None =>
        LET st == active_transfer[1].state
        IN \A k \in DOMAIN st.received :
              LET payload == st.received[k]
                  r == on_chunk_received(Core, k.transfer_id, k.start, k.end,
                                         hash_chunk(payload), payload)
              IN /\ r.res = "InProgress"
                 /\ r.body = <<>>
                 /\ r.core.active_transfer # None
                 /\ r.core.active_transfer[1].state.received = st.received
                 /\ r.core.active_transfer[1].state = st
                 /\ current_assignment(r.core) = current_assignment(Core)
                 /\ r.core.peers = peers
                 /\ r.core.peer_last_tick = peer_last_tick

\* a planned chunk was delivered a second time while another was still missing
C13_Witness ==
    /\ last.op = "on_chunk_received"
    /\ last.repeat
    /\ last.res = "InProgress"
    /\ active_transfer # None
    /\ PlannedChunks(active_transfer[1].state) \cap DOMAIN active_transfer[1].state.received # {}

-----------------------------------------------------------------------------
(* Claims on LongSpec: replacement, Nack and chunk timeout *)

(* C17: a Nack from peer P for a chunk of the active transfer returns exactly
   one action, a ChunkRequest for that chunk, addressed to a worker other
   than P, and leaves that worker as the chunk's only assignee. *)
C17_NackReassignsAway ==
    active_transfer # None =>
        \A p \in PeerIds, k \in ChunkInputs :
            k.transfer_id = active_transfer[1].state.transfer_id =>
               LET r == on_message_received(Core, p, encode_frame(Nack(k)))
               IN /\ r.res = "Ok"
                  /\ Len(r.actions) = 1
                  /\ r.actions[1].kind = "SendMessage"
                  /\ r.actions[1].bytes = encode_frame(chunk_request_message(k))
                  /\ r.actions[1].peer # p
                  /\ r.actions[1].peer \in {Self} \cup {peers[i] : i \in 1..Len(peers)}
                  /\ ChunksOf(current_assignment(r.core)[1], r.actions[1].peer) \ {k}
                        = ChunksOf(current_assignment(Core)[1], r.actions[1].peer) \ {k}
                  /\ \A w \in Devices :
                        k \in ChunksOf(current_assignment(r.core)[1], w) <=> w = r.actions[1].peer
                  /\ Cardinality({i \in 1..Len(current_assignment(r.core)[1]) :
                                     current_assignment(r.core)[1][i][1] = k}) = 1

\* a peer of the pod refused a planned chunk it held, and the chunk went to the local device
C17_Witness ==
    /\ last.op = "on_message_received"
    /\ last.kind = "Nack"
    /\ Contains(peers, last.peer)
    /\ Len(last.actions) = 1
    /\ active_transfer # None
    /\ LET assignment == active_transfer[1].assignment
           moved == assignment[Len(assignment)]
       IN /\ moved[1] \in PlannedChunks(active_transfer[1].state)
          /\ moved[2] = Self
          /\ last.actions[1] = SendMessage(Self, encode_frame(chunk_request_message(moved[1])))
          /\ ChunksOf(assignment, last.peer) = {}

\* the worker the assignment names for chunk k
AssigneesOf(assignment, k) ==
    {assignment[i][2] : i \in {j \in 1..Len(assignment) : assignment[j][1] = k}}

(* C18: when a tick that evicts nobody finds request ticks more than
   DEFAULT_CHUNK_TIMEOUT_TICKS old for chunks of the active transfer, each such
   chunk loses its request tick, is not in flight, has a ChunkRequest emitted
   to its new assignee, and - there being another worker - the new assignee
   is not the worker that let the request time out. *)
C18_TimedOutChunkMovesOn ==
    LET c0 == [Core EXCEPT !.tick_count = @ + 1]
    IN (active_transfer # None /\ OverduePeers(c0) = {}) =>
          \A timed_out \in Orders(TimedOutChunks(c0)) :
             LET r == tick(Core, <<>>, timed_out)
                 before == active_transfer[1].assignment
                 after == r.core.active_transfer[1].assignment
             IN \A k \in TimedOutChunks(c0) :
                   (k.transfer_id = active_transfer[1].state.transfer_id
                    /\ AssigneesOf(before, k) # {}) =>
                      /\ k \notin DOMAIN r.core.chunk_request_times
                      /\ k \notin r.core.active_transfer[1].state.in_flight
                      /\ Cardinality(AssigneesOf(after, k)) = 1
                      /\ \A w \in AssigneesOf(after, k) :
                            /\ \E i \in 1..Len(r.actions) :
                                  r.actions[i] = SendMessage(w,
                                      encode_frame(chunk_request_message(k)))
                            /\ peers # <<>> => w \notin AssigneesOf(before, k)

(* C14: an Accelerate returned while a transfer is active discards the prior
   transfer's received chunks, assignment and request-tick entries:
   current_assignment() is the new plan, nothing is held, no request tick is
   kept for a chunk of the prior transfer, and a chunk carrying the prior
   transfer id is answered UnknownTransfer and leaves the new transfer as it
   is. *)
C14_AccelerateDiscardsPrior ==
    active_transfer # None =>
        LET prior == active_transfer[1].state.transfer_id
            r == on_incoming_request(Core, HttpUrl, FullRange)
        IN r.res = "Accelerate" =>
              /\ r.core.active_transfer # None
              /\ r.core.active_transfer[1].state.transfer_id # prior
              /\ r.core.active_transfer[1].state.received = EmptyMap
              /\ current_assignment(r.core) = Some(r.assignment)
              /\ \A i \in 1..Len(r.assignment) : r.assignment[i][1].transfer_id # prior
              /\ \A k \in DOMAIN r.core.chunk_request_times : k.transfer_id # prior
              /\ \A k \in ChunkInputs :
                    k.transfer_id = prior =>
                       LET payload == TruePayload(k.start, k.end)
                           q == on_chunk_received(r.core, k.transfer_id, k.start, k.end,
                                                  hash_chunk(payload), payload)
                       IN /\ q.res = "UnknownTransfer"
                          /\ q.core.active_transfer = r.core.active_transfer

-----------------------------------------------------------------------------
(* SplitSpec: chunk::split_into_chunks called on its own, one loop iteration a
   step, over unsigned integers of WordBits bits.  An addition that exceeds
   the width panics in a build with overflow checks and wraps in one without. *)

Word == 2 ^ WordBits

SplitTotals == {0, 1, 3, 5, DEFAULT_CHUNK_SIZE, 2 * DEFAULT_CHUNK_SIZE + 1, Word - 1}
SplitSizes == {0, 1, 2, DEFAULT_CHUNK_SIZE, (Word \div 2) + 1, Word - 1}
Builds == {"overflow-checks", "wrapping"}

SplitCall(total_len, chunk_size, build) ==
    /\ split' = [pc |-> "loop", build |-> build, total_len |-> total_len,
                 chunk_size |-> chunk_size,
                 size |-> IF chunk_size = 0 THEN DEFAULT_CHUNK_SIZE ELSE chunk_size,
                 start |-> 0, out |-> <<>>]
    /\ UNCHANGED <<core_vars, sched, xfer, wire, conn, metr>>

\* one iteration of `while start < total_len`
SplitStep ==
    /\ split.pc = "loop"
    /\ split.start < split.total_len
    /\ Len(split.out) < SplitMaxSteps
    /\ LET sum == split.start + split.size
       IN IF sum >= Word /\ split.build = "overflow-checks"
          THEN split' = [split EXCEPT !.pc = "panicked"]
          ELSE LET end == Min(sum % Word, split.total_len)
               IN split' = [split EXCEPT !.out = Append(@, ChunkId(1, split.start, end)),
                                         !.start = end]
    /\ UNCHANGED <<core_vars, sched, xfer, wire, conn, metr>>

SplitReturn ==
    /\ split.pc = "loop"
    /\ split.start >= split.total_len
    /\ split' = [split EXCEPT !.pc = "returned"]
    /\ UNCHANGED <<core_vars, sched, xfer, wire, conn, metr>>

NextSplit ==
    \/ \E total_len \in SplitTotals, chunk_size \in SplitSizes, build \in Builds :
          SplitCall(total_len, chunk_size, build) /\ Quiet
    \/ SplitStep /\ Quiet
    \/ SplitReturn /\ Quiet

SplitSpec == Init /\ [][NextSplit]_vars

\* the chunks out tile [0, upto) in order, each non-empty and at most size long
TilesUpTo(out, upto, size) ==
    /\ \A i \in 1..Len(out) :
          /\ out[i].start < out[i].end
          /\ out[i].end - out[i].start <= size
          /\ out[i].start = IF i = 1 THEN 0 ELSE out[i - 1].end
    /\ upto = IF out = <<>> THEN 0 ELSE out[Len(out)].end

(* C15: for every total_len and chunk_size, split_into_chunks runs to its
   return without failing, the chunks it has pushed at any point tile
   [0, start) contiguously in order, each non-empty and at most the effective
   chunk size long (the default when chunk_size is 0), and what it returns
   tiles [0, total_len): nothing for total_len 0. *)
C15_SplitTilesRange ==
    /\ split.pc # "panicked"
    /\ split.pc \in {"loop", "returned"} =>
          /\ TilesUpTo(split.out, split.start,
                       IF split.chunk_size = 0 THEN DEFAULT_CHUNK_SIZE ELSE split.chunk_size)
          /\ split.start <= split.total_len
    /\ split.pc = "returned" =>
          /\ split.start = split.total_len
          /\ split.total_len = 0 => split.out = <<>>

-----------------------------------------------------------------------------
(* Claims on IsoSpec: what a ChunkData frame that fails verification returns *)

(* C16: a ChunkData frame for the active transfer whose payload does not
   verify against its hash makes on_message_received return, among its
   actions, a Nack for that chunk addressed to the peer that sent the frame. *)
C16_FailedChunkDataNacked ==
    active_transfer # None =>
        \A p \in PeerIds, msg \in ChunkDataInputs :
            IntegrityFailure(msg) =>
                LET r == on_message_received(Core, p, encode_frame(msg))
                    k == ChunkId(msg.transfer_id, msg.start, msg.end)
                IN \E i \in 1..Len(r.actions) :
                      r.actions[i] = SendMessage(p, encode_frame(Nack(k)))

-----------------------------------------------------------------------------
(* Claims on HeartbeatSpec: the heartbeats a tick sends *)

(* C19: the actions a tick returns end with one Heartbeat{self} SendMessage
   for each peer the tick leaves in the peer set, in the order of the peer
   set; nothing before them is a heartbeat, so an evicted peer gets none and
   every reassignment comes first. *)
C19_HeartbeatsToSurvivorsLast ==
    LET c0 == [Core EXCEPT !.tick_count = @ + 1]
    IN \A overdue \in Orders(OverduePeers(c0)), timed_out \in Orders(TimedOutChunks(c0)) :
          LET r == tick(Core, overdue, timed_out)
              n == Len(r.core.peers)
              m == Len(r.actions)
          IN /\ r.core.peers = SelectSeq(peers, LAMBDA p : p \notin OverduePeers(c0))
             /\ m >= n
             /\ \A i \in 1..n :
                   r.actions[m - n + i] =
                      SendMessage(r.core.peers[i], encode_frame(Heartbeat(Self)))
             /\ \A j \in 1..(m - n) :
                   /\ r.actions[j].kind = "SendMessage"
                   /\ r.actions[j].bytes.msg.kind = "ChunkRequest"

\* a tick evicted a peer holding chunks: the requests for them came first,
\* the heartbeat to the surviving peer last
C19_Witness ==
    /\ last.op = "tick"
    /\ Len(peers) = 1
    /\ Len(last.actions) >= 2
    /\ last.actions[1].bytes.msg.kind = "ChunkRequest"
    /\ last.actions[Len(last.actions)] = SendMessage(peers[1], encode_frame(Heartbeat(Self)))
    /\ \A i \in 1..(Len(last.actions) - 1) : last.actions[i].bytes.msg.kind # "Heartbeat"

-----------------------------------------------------------------------------
(* XferSpec: a TransferState driven directly through its own operations *)

XferChunkInputs ==
    PlannedChunks(xfer) \cup {ChunkId(xfer.transfer_id, 0, 1)}

\* the transfer's own id and another
XferTransferIds == {xfer.transfer_id, xfer.transfer_id + 1}

MarkInFlight(chunk_id) ==
    /\ xfer' = mark_in_flight(xfer, chunk_id)
    /\ UNCHANGED <<core_vars, sched, split, wire, conn, metr>>

MarkReceived(chunk_id, payload) ==
    /\ xfer' = mark_received(xfer, chunk_id, payload)
    /\ UNCHANGED <<core_vars, sched, split, wire, conn, metr>>

MarkFailed(chunk_id) ==
    /\ xfer' = mark_failed(xfer, chunk_id)
    /\ UNCHANGED <<core_vars, sched, split, wire, conn, metr>>

OnChunkDataReceived(transfer_id, start, end, hash, payload) ==
    /\ xfer' = on_chunk_data_received(xfer, transfer_id, start, end, hash, payload).state
    /\ UNCHANGED <<core_vars, sched, split, wire, conn, metr>>

NextXfer ==
    \/ \E k \in XferChunkInputs : MarkInFlight(k) /\ Quiet
    \/ \E k \in XferChunkInputs : \E payload \in FullPayloads(k.start, k.end) :
          MarkReceived(k, payload) /\ Quiet
    \/ \E k \in XferChunkInputs : MarkFailed(k) /\ Quiet
    \/ \E k \in XferChunkInputs, t \in XferTransferIds :
          \E payload \in FullPayloads(k.start, k.end) : \E hash \in HashInputs(payload) :
             OnChunkDataReceived(t, k.start, k.end, hash, payload) /\ Quiet

XferSpec == Init /\ [][NextXfer]_vars

(* C20: no chunk of a TransferState is at once in its received set and in its
   in-flight set. *)
C20_ReceivedNotInFlight ==
    DOMAIN xfer.received \cap xfer.in_flight = {}

-----------------------------------------------------------------------------
(* Claims on LongSpec: the requests one call emits *)

\* the chunks that actions request: one entry per ChunkRequest SendMessage
RequestedIn(actions) ==
    SelectSeq(actions, LAMBDA a : a.kind = "SendMessage" /\ a.bytes.msg.kind = "ChunkRequest")

\* no two ChunkRequest SendMessages of actions are for the same chunk
OneRequestPerChunk(actions) ==
    LET reqs == RequestedIn(actions)
    IN \A i, j \in 1..Len(reqs) :
          (i # j) => ~(/\ reqs[i].bytes.msg.transfer_id = reqs[j].bytes.msg.transfer_id
                       /\ reqs[i].bytes.msg.start = reqs[j].bytes.msg.start
                       /\ reqs[i].bytes.msg.end = reqs[j].bytes.msg.end)

(* C21: the actions one call of tick, on_peer_left or on_message_received
   returns hold at most one ChunkRequest for any one chunk, also when the
   tick evicts a peer whose chunk request has timed out. *)
C21_OneRequestPerChunkPerCall ==
    /\ LET c0 == [Core EXCEPT !.tick_count = @ + 1]
       IN \A overdue \in Orders(OverduePeers(c0)), timed_out \in Orders(TimedOutChunks(c0)) :
             OneRequestPerChunk(tick(Core, overdue, timed_out).actions)
    /\ \A p \in LongPeers :
          /\ OneRequestPerChunk(on_peer_left(Core, p).actions)
          /\ OneRequestPerChunk(on_message_received(Core, p, encode_frame(Leave(p))).actions)
          /\ \A k \in ChunkInputs :
                OneRequestPerChunk(on_message_received(Core, p, encode_frame(Nack(k))).actions)

\* the parts of C21 that hold: on_peer_left and on_message_received, and a
\* tick in which no evicted peer holds a chunk whose request has timed out
C21_OneRequestUnlessEvictionMeetsTimeout ==
    /\ LET c0 == [Core EXCEPT !.tick_count = @ + 1]
       IN \A overdue \in Orders(OverduePeers(c0)), timed_out \in Orders(TimedOutChunks(c0)) :
             (active_transfer = None
              \/ \A p \in OverduePeers(c0) :
                    ChunksOf(active_transfer[1].assignment, p) \cap TimedOutChunks(c0) = {})
             => OneRequestPerChunk(tick(Core, overdue, timed_out).actions)
    /\ \A p \in LongPeers :
          /\ OneRequestPerChunk(on_peer_left(Core, p).actions)
          /\ OneRequestPerChunk(on_message_received(Core, p, encode_frame(Leave(p))).actions)
          /\ \A k \in ChunkInputs :
                OneRequestPerChunk(on_message_received(Core, p, encode_frame(Nack(k))).actions)

\* every ChunkRequest of actions is for a chunk whose request tick c holds
\* and equals c's tick count
RequestsStamped(c, actions) ==
    LET reqs == RequestedIn(actions)
    IN \A i \in 1..Len(reqs) :
          LET k == ChunkId(reqs[i].bytes.msg.transfer_id, reqs[i].bytes.msg.start,
                           reqs[i].bytes.msg.end)
          IN /\ k \in DOMAIN c.chunk_request_times
             /\ c.chunk_request_times[k] = c.tick_count

(* C22: an Accelerate leaves the current tick as the request tick of every
   chunk it assigns; a peer leaving, a Nack and a tick leave it as the request
   tick of every chunk they emit a ChunkRequest for; so while a transfer is
   active every assigned chunk not yet received has a request-tick entry. *)
C22_AssignedChunksHaveRequestTick ==
    /\ LET r == on_incoming_request(Core, HttpUrl, FullRange)
       IN r.res = "Accelerate" =>
             \A i \in 1..Len(r.assignment) :
                /\ r.assignment[i][1] \in DOMAIN r.core.chunk_request_times
                /\ r.core.chunk_request_times[r.assignment[i][1]] = r.core.tick_count
    /\ \A p \in LongPeers :
          /\ LET r == on_peer_left(Core, p) IN RequestsStamped(r.core, r.actions)
          /\ \A k \in ChunkInputs :
                LET r == on_message_received(Core, p, encode_frame(Nack(k)))
                IN RequestsStamped(r.core, r.actions)
    /\ LET c0 == [Core EXCEPT !.tick_count = @ + 1]
       IN \A overdue \in Orders(OverduePeers(c0)), timed_out \in Orders(TimedOutChunks(c0)) :
             LET r == tick(Core, overdue, timed_out) IN RequestsStamped(r.core, r.actions)
    /\ active_transfer # None =>
          \A i \in 1..Len(active_transfer[1].assignment) :
             LET k == active_transfer[1].assignment[i][1]
             IN k \notin DOMAIN active_transfer[1].state.received
                   => k \in DOMAIN chunk_request_times

-----------------------------------------------------------------------------
(* LiveSpec: one transfer with the host and the workers around it.  The host
   takes the ChunkRequests the Coordinator hands it (the assignment of an
   Accelerate, the SendMessage actions of a tick) and at once either delivers
   each to its worker or abandons it; a worker answers a delivered request
   with the chunk's bytes.  Ticks never stop: tick_count saturates at
   TickMax. *)

\* the requests an assignment asks the host to make
RequestsOfAssignment(assignment) ==
    {[chunk |-> assignment[i][1], worker |-> assignment[i][2]] : i \in 1..Len(assignment)}

\* the requests among the actions a call returned
RequestsOfActions(actions) ==
    {[chunk |-> ChunkId(a.bytes.msg.transfer_id, a.bytes.msg.start, a.bytes.msg.end),
      worker |-> a.peer] : a \in {RequestedIn(actions)[i] : i \in 1..Len(RequestedIn(actions))}}

\* the host sends the requests it was handed, abandoning some of those for
\* other devices while it has losses left: message loss
HostSends(h, requests) ==
    \E lost \in SUBSET {m \in requests : m.worker # Self} :
       /\ h.losses + Cardinality(lost) <= LiveMaxLoss
       /\ host' = [h EXCEPT !.net = @ \cup (requests \ lost),
                            !.losses = @ + Cardinality(lost)]

LiveJoin ==
    /\ peers = <<>>
    /\ tick_count = 0
    /\ \E p \in LongPeers : OnPeerJoined(p)
    /\ UNCHANGED host

LiveRequest ==
    /\ tick_count = 0
    /\ next_transfer <= LongMaxTransfers
    /\ OnIncomingRequest(HttpUrl, FullRange)
    /\ HostSends(host, RequestsOfAssignment(last'.assignment))

\* a host that records the request tick of a chunk it has requested
LiveMark ==
    /\ tick_count <= LongMarkTick
    /\ active_transfer # None
    /\ \E k \in PlannedChunks(active_transfer[1].state) : MarkChunkRequested(k)
    /\ UNCHANGED host

\* a worker answers a request delivered to it
LiveAnswer ==
    \E m \in host.net :
       /\ LET payload == TruePayload(m.chunk.start, m.chunk.end)
          IN OnChunkReceived(m.chunk.transfer_id, m.chunk.start, m.chunk.end,
                             hash_chunk(payload), payload)
       /\ host' = [host EXCEPT !.net = @ \ {m}]

\* a peer about to expire lets itself be heard
LiveHeartbeat ==
    /\ \E i \in 1..Len(peers) :
          /\ tick_count - peer_last_tick[peers[i]] = HEARTBEAT_TIMEOUT_TICKS
          /\ OnHeartbeatReceived(peers[i])
    /\ UNCHANGED host

LiveTick ==
    /\ LET c0 == [Core EXCEPT !.tick_count = SatAdd(@, 1)]
       IN \E overdue \in Orders(OverduePeers(c0)), timed_out \in Orders(TimedOutChunks(c0)) :
            LET r == tick(Core, overdue, timed_out)
            IN /\ SetCore(r.core)
               /\ last' = [NoCall EXCEPT !.op = "tick", !.actions = r.actions]
    /\ UNCHANGED direct
    /\ HostSends([host EXCEPT !.beat = 1 - @], RequestsOfActions(last'.actions))

NextLive ==
    \/ LiveJoin /\ NoHistory
    \/ LiveRequest /\ NoHistory
    \/ LiveMark /\ NoHistory
    \/ LiveAnswer /\ NoHistory
    \/ LiveHeartbeat /\ NoHistory
    \/ LiveTick /\ NoHistory

\* the tick timer keeps firing and a worker answers what reached it
LiveSpec ==
    /\ Init /\ [][NextLive]_vars
    /\ WF_vars(LiveTick /\ NoHistory)
    /\ WF_vars(LiveAnswer /\ NoHistory)

(* C23: with the host abandoning an outbound ChunkRequest while ticks go on
   and workers answer every request delivered to them, a transfer that was
   started eventually completes. *)
C23_LostRequestRecovered ==
    (active_transfer # None) ~> (active_transfer = None)

-----------------------------------------------------------------------------
(* Claims on HeartbeatSpec: discovery frames handed to on_message_received *)

(* C24: a Beacon or DiscoveryResponse frame advertising device P makes
   on_message_received return without error with P in the peer table, last
   seen at the current tick; for a Beacon the actions it returns hold a
   DiscoveryResponse addressed to the sender. *)
C24_BeaconAnswered ==
    \A p \in PeerIds :
       LET b == on_message_received(Core, p, encode_frame(Beacon(p)))
           d == on_message_received(Core, p, encode_frame(DiscoveryResponse(p)))
       IN /\ b.res = "Ok"
          /\ Contains(b.core.peers, p)
          /\ p \in DOMAIN b.core.peer_last_tick
          /\ b.core.peer_last_tick[p] = tick_count
          /\ \E i \in 1..Len(b.actions) :
                b.actions[i] = SendMessage(p, encode_frame(DiscoveryResponse(Self)))
          /\ d.res = "Ok"
          /\ Contains(d.core.peers, p)
          /\ p \in DOMAIN d.core.peer_last_tick
          /\ d.core.peer_last_tick[p] = tick_count

-----------------------------------------------------------------------------
(* Claims on LongSpec: two Coordinators fed the same events *)

(* C28: a tick's outcome - the actions it returns, in order, and the
   Coordinator it leaves, assignment included - is the same whatever order
   the two HashMaps yield the overdue peers and the timed-out chunk requests
   in, so two Coordinators fed the same events agree. *)
C28_TickOutcomeIsReproducible ==
    LET c0 == [Core EXCEPT !.tick_count = @ + 1]
    IN \A overdue1, overdue2 \in Orders(OverduePeers(c0)) :
          \A timed_out1, timed_out2 \in Orders(TimedOutChunks(c0)) :
             LET r1 == tick(Core, overdue1, timed_out1)
                 r2 == tick(Core, overdue2, timed_out2)
             IN /\ r1.actions = r2.actions
                /\ current_assignment(r1.core) = current_assignment(r2.core)

-----------------------------------------------------------------------------
(* Claims on IsoSpec: frames for a transfer that is not the active one *)

\* the call returned Ok with no actions and left the transfer and the pod alone
SilentlyDropped(r) ==
    /\ r.res = "Ok"
    /\ r.actions = <<>>
    /\ r.core.active_transfer = active_transfer
    /\ current_assignment(r.core) = current_assignment(Core)
    /\ r.core.peers = peers
    /\ r.core.peer_last_tick = peer_last_tick

(* C26: a ChunkData or Nack frame whose transfer id is not the active
   transfer's, or that arrives while no transfer is active, makes
   on_message_received return Ok with no actions, and leaves the active
   transfer - its received chunks and its assignment - and the peer set as
   they were. *)
C26_UnknownTransferDropped ==
    \A p \in PeerIds, k \in ChunkInputs :
       (active_transfer = None \/ active_transfer[1].state.transfer_id # k.transfer_id) =>
          /\ SilentlyDropped(on_message_received(Core, p, encode_frame(Nack(k))))
          /\ \A payload \in PayloadInputs(k.start, k.end) : \A hash \in HashInputs(payload) :
                SilentlyDropped(on_message_received(Core, p,
                                   encode_frame(ChunkData(k, hash, payload))))

\* a ChunkData frame came in while the first transfer was active, was not
\* admitted and was not a failed verification: it named another transfer
C26_Witness ==
    /\ last.op = "on_message_received"
    /\ last.kind = "ChunkData"
    /\ last.res = "Ok"
    /\ last.actions = <<>>
    /\ active_transfer # None
    /\ next_transfer = 2
    /\ active_transfer[1].state.received = EmptyMap
    /\ \A p \in PeerIds : failed_from[p] = 0

-----------------------------------------------------------------------------
(* Frames on a byte stream: a sender appends encoded frames to a buffer, the
   receiver decodes from the front of what it has not consumed yet and
   advances by the count decode_frame returns (wire.rs, multiple_messages). *)

WireMaxFrames == 2

IdBytes(b) == [i \in 1..16 |-> b]
KeyBytes(b) == [i \in 1..32 |-> b]

\* messages of every variant; integers wider than one byte, payloads empty
\* and not, ids that differ
WireMessages ==
    {[kind |-> k, protocol_version |-> 1, device_id |-> IdBytes(17),
      public_key |-> KeyBytes(200), listen_port |-> 45678] : k \in {"Beacon", "DiscoveryResponse"}}
    \cup {[kind |-> k, device_id |-> IdBytes(b)] : k \in {"Join", "Leave", "Heartbeat"}, b \in {0, 255}}
    \cup {[kind |-> k, transfer_id |-> IdBytes(3), start |-> s, end |-> s + 262144] :
             k \in {"ChunkRequest", "Nack"}, s \in {0, 262144}}
    \cup {[kind |-> "ChunkData", transfer_id |-> IdBytes(3), start |-> 256, end |-> 256 + Len(p),
           hash |-> KeyBytes(9), payload |-> p] : p \in {<<>>, <<0>>, <<1, 0, 0, 0, 5>>}}

\* bytes that may follow a frame in the buffer: nothing, stray bytes, the
\* start of another frame, a whole other frame
WireTails ==
    {<<>>, <<0>>, <<255, 255>>, <<20, 0, 0, 0, 4>>, <<255, 255, 255, 255, 0>>}
    \cup {wire_encode_frame(m).bytes : m \in {x \in WireMessages : x.kind \in {"Heartbeat", "Nack"}}}

WireRest == SubSeq(wire.buf, wire.pos + 1, Len(wire.buf))

WireEncode ==
    /\ ~wire.tailed
    /\ Len(wire.sent) < WireMaxFrames
    /\ \E m \in WireMessages :
          LET f == wire_encode_frame(m)
          IN /\ f.ok
             /\ wire' = [wire EXCEPT !.buf = @ \o f.bytes, !.sent = Append(@, m), !.res = "Sent"]
    /\ UNCHANGED <<peers, peer_last_tick, tick_count, active_transfer, chunk_request_times,
                   next_transfer, sched, split, xfer, conn, metr, last>>

\* bytes of a frame still on its way reach the buffer
WireTail ==
    /\ ~wire.tailed
    /\ wire.sent # <<>>
    /\ \E t \in {<<0>>, <<255, 255>>, <<20, 0, 0, 0, 4>>} :
          wire' = [wire EXCEPT !.buf = @ \o t, !.tailed = TRUE, !.res = "Tail"]
    /\ UNCHANGED <<peers, peer_last_tick, tick_count, active_transfer, chunk_request_times,
                   next_transfer, sched, split, xfer, conn, metr, last>>

WireDecode ==
    /\ LET d == wire_decode_frame(WireRest)
       IN wire' = IF d.ok
                  THEN [wire EXCEPT !.pos = @ + d.consumed, !.got = Append(@, d.msg), !.res = "Ok"]
                  ELSE [wire EXCEPT !.res = d.err]
    /\ UNCHANGED <<peers, peer_last_tick, tick_count, active_transfer, chunk_request_times,
                   next_transfer, sched, split, xfer, conn, metr, last>>

NextWire ==
    \/ WireEncode /\ Quiet
    \/ WireTail /\ Quiet
    \/ WireDecode /\ Quiet

WireSpec == Init /\ [][NextWire]_vars

RECURSIVE FramesLen(_)
FramesLen(msgs) ==
    IF msgs = <<>> THEN 0 ELSE Len(wire_encode_frame(Head(msgs)).bytes) + FramesLen(Tail(msgs))

(* C27: decode_frame applied to encode_frame(m) followed by any further
   bytes returns m and consumed = len(encode_frame(m)); and decoding a
   buffer of concatenated frames again and again, advancing by consumed,
   yields the messages in the order they were encoded: what was decoded so
   far is the front of what was sent, and the read position is the total
   length of those frames. *)
C27_FrameRoundTrip ==
    /\ \A m \in WireMessages, tail \in WireTails :
          LET f == wire_encode_frame(m)
              d == wire_decode_frame(f.bytes \o tail)
          IN f.ok /\ d.ok /\ d.msg = m /\ d.consumed = Len(f.bytes)
    /\ Len(wire.got) <= Len(wire.sent)
    /\ wire.got = SubSeq(wire.sent, 1, Len(wire.got))
    /\ wire.pos = FramesLen(wire.got)
    /\ (Len(wire.got) < Len(wire.sent)) => wire_decode_frame(WireRest).ok

\* frames of different kinds were decoded in order from a buffer that holds
\* a partial frame behind them
C27_Witness ==
    /\ Len(wire.got) = WireMaxFrames
    /\ wire.got = wire.sent
    /\ wire.got[1].kind = "Beacon"
    /\ wire.got[2].kind = "ChunkData" /\ wire.got[2].payload # <<>>
    /\ wire.tailed
    /\ wire.res = "Ok"
    /\ wire_decode_frame(WireRest).err = "NeedMore"

(* C25: on_message_received on bytes that do not decode to a complete,
   well-formed frame returns a decode error, with no actions, and leaves the
   peer table, the tick count, the active transfer and its assignment
   unchanged. *)
C25_DecodeErrorChangesNothing ==
    \A p \in PeerIds, bytes \in UndecodableBytes :
       LET r == on_message_received(Core, p, FrameOfBytes(bytes))
       IN /\ ~wire_decode_frame(bytes).ok
          /\ r.res = "DecodeError"
          /\ r.actions = <<>>
          /\ r.core.peers = peers
          /\ r.core.peer_last_tick = peer_last_tick
          /\ r.core.tick_count = tick_count
          /\ r.core.active_transfer = active_transfer
          /\ current_assignment(r.core) = current_assignment(Core)

\* undecodable bytes came in while a transfer was active and a peer was in
\* the pod, and were turned down
C25_Witness ==
    /\ last.op = "on_message_received"
    /\ last.kind = "Garbage"
    /\ last.res = "DecodeError"
    /\ active_transfer # None
    /\ peers # <<>>

-----------------------------------------------------------------------------
(* pea-windows transport.rs, run_connection: one direction of a connection.
   The writer task of one device encrypts each frame under its write_nonce
   and puts it on the TCP stream; the read loop of the other device takes
   the frames in order and decrypts each under its read_nonce.  The nonce
   counters are u64 in the program and NonceBits wide here. *)

NonceBits == 3
NonceMax == (2 ^ NonceBits) - 1
ConnMaxFrames == NonceMax + 2

\* u64::saturating_add(1)
NonceSatAdd(n) == IF n = NonceMax THEN NonceMax ELSE n + 1

\* identity::encrypt_wire: what the ciphertext depends on
encrypt_wire(key, nonce, plain) == [key |-> key, nonce |-> nonce, plain |-> plain, sound |-> TRUE]

\* identity::decrypt_wire: the tag verifies under the same key and nonce, on
\* a ciphertext that was not altered
decrypt_wire(key, nonce, cipher) ==
    IF cipher.sound /\ cipher.key = key /\ cipher.nonce = nonce
    THEN [ok |-> TRUE, plain |-> cipher.plain]
    ELSE [ok |-> FALSE, plain |-> <<>>]

SessionKey == "session_key"

\* the writer task: one pass of `while let Some(plain) = rx.recv().await`
ConnWrite ==
    /\ conn.open
    /\ Len(conn.used) < ConnMaxFrames
    /\ LET cipher == encrypt_wire(SessionKey, conn.write_nonce, Len(conn.used) + 1)
       IN conn' = [conn EXCEPT !.write_nonce = NonceSatAdd(@),
                               !.used = Append(@, conn.write_nonce),
                               !.stream = Append(@, cipher)]
    /\ UNCHANGED <<peers, peer_last_tick, tick_count, active_transfer, chunk_request_times,
                   next_transfer, sched, split, xfer, wire, metr, last>>

\* the read loop: one pass; a frame that does not decrypt ends the loop
ConnRead ==
    /\ conn.open
    /\ conn.stream # <<>>
    /\ LET plain == decrypt_wire(SessionKey, conn.read_nonce, Head(conn.stream))
       IN conn' = IF plain.ok
                  THEN [conn EXCEPT !.read_nonce = NonceSatAdd(@),
                                    !.accepted = Append(@, conn.read_nonce),
                                    !.stream = Tail(@)]
                  ELSE [conn EXCEPT !.stream = Tail(@), !.open = FALSE]
    /\ UNCHANGED <<peers, peer_last_tick, tick_count, active_transfer, chunk_request_times,
                   next_transfer, sched, split, xfer, wire, metr, last>>

\* the network alters the frame the reader will take next
ConnAlter ==
    /\ conn.open
    /\ conn.stream # <<>>
    /\ Head(conn.stream).sound
    /\ conn' = [conn EXCEPT !.stream[1].sound = FALSE]
    /\ UNCHANGED <<peers, peer_last_tick, tick_count, active_transfer, chunk_request_times,
                   next_transfer, sched, split, xfer, wire, metr, last>>

NextConn ==
    \/ ConnWrite /\ Quiet
    \/ ConnRead /\ Quiet
    \/ ConnAlter /\ Quiet

ConnSpec == Init /\ [][NextConn]_vars

(* C29: in a direction of a connection the nonce counter starts at 0 and
   has increased by exactly one for every frame encrypted (sender) or
   successfully decrypted (receiver); no nonce value was used for two
   frames; and the receiver's nonce for the k-th frame is the sender's. *)
C29_NoncePerFrameUnique ==
    /\ conn.write_nonce = Len(conn.used)
    /\ conn.read_nonce = Len(conn.accepted)
    /\ \A i, j \in DOMAIN conn.used : i # j => conn.used[i] # conn.used[j]
    /\ \A i, j \in DOMAIN conn.accepted : i # j => conn.accepted[i] # conn.accepted[j]
    /\ Len(conn.accepted) <= Len(conn.used)
    /\ \A k \in DOMAIN conn.accepted : conn.accepted[k] = conn.used[k]

(* C29, short of the counter's maximum: as long as fewer frames than the
   counter can count were encrypted, every frame had its own nonce, one
   above the frame before it, and the receiver used the same one. *)
C29_UniqueBelowSaturation ==
    /\ Len(conn.used) <= NonceMax + 1 =>
          /\ \A i \in DOMAIN conn.used : conn.used[i] = i - 1
          /\ \A k \in DOMAIN conn.accepted : conn.accepted[k] = conn.used[k]
    /\ Len(conn.used) <= NonceMax => conn.write_nonce = Len(conn.used)
    /\ Len(conn.accepted) <= NonceMax => conn.read_nonce = Len(conn.accepted)
    /\ \A k \in DOMAIN conn.accepted : conn.accepted[k] = conn.used[k]

-----------------------------------------------------------------------------
(* scheduler.rs, assign_chunks_with_metrics called directly, as its tests do *)

PeerMetrics(failures) == [successes |-> 0, failures |-> failures]

\* metrics for some of the devices, with failure counts below, at and above
\* DEFAULT_MAX_FAILURES
MetricsInputs ==
    UNION {[D -> {PeerMetrics(f) : f \in {DEFAULT_MAX_FAILURES - 1, DEFAULT_MAX_FAILURES,
                                           DEFAULT_MAX_FAILURES + 1}}] : D \in SUBSET Devices}

\* one call on inputs built for it
AssignChunksWithMetrics(chunk_ids, workers, metrics, max_failures) ==
    /\ ~metr.called
    /\ metr' = [chunk_ids |-> chunk_ids, peers |-> workers, metrics |-> metrics,
                max_failures |-> max_failures,
                out |-> assign_chunks_with_metrics(chunk_ids, workers, metrics, max_failures),
                called |-> TRUE]
    /\ UNCHANGED <<core_vars, sched, split, xfer, wire, conn>>

NextMetr ==
    \E chunk_ids \in SchedChunkLists, workers \in WorkerLists, metrics \in MetricsInputs,
       max_failures \in {0, DEFAULT_MAX_FAILURES} :
          AssignChunksWithMetrics(chunk_ids, workers, metrics, max_failures) /\ Quiet

MetrSpec == Init /\ [][NextMetr]_vars

\* the worker has an entry in the metrics and its failures are at or above
\* the threshold of the call
OverThreshold(p) == p \in DOMAIN metr.metrics /\ metr.metrics[p].failures >= metr.max_failures

\* every chunk handed in is assigned exactly once
EachChunkAssignedOnce ==
    \A i \in DOMAIN metr.chunk_ids :
       Cardinality({j \in DOMAIN metr.out : metr.out[j][1] = metr.chunk_ids[i]}) = 1

MetrAvoidsOrFallsBack ==
    /\ \A j \in DOMAIN metr.out : Contains(metr.peers, metr.out[j][2])
    /\ (\E i \in DOMAIN metr.peers : ~OverThreshold(metr.peers[i])) =>
          \A j \in DOMAIN metr.out : ~OverThreshold(metr.out[j][2])
    /\ (\A i \in DOMAIN metr.peers : OverThreshold(metr.peers[i])) =>
          metr.out = assign_chunks_to_peers(metr.chunk_ids, metr.peers)

(* C30, as stated: assign_chunks_with_metrics assigns every chunk exactly
   once and never assigns a chunk to a worker whose recorded failures are at
   or above the threshold, unless every worker is at or above it, in which
   case all workers are used round-robin. *)
C30_MetricsAssignEveryChunk ==
    metr.called => (EachChunkAssignedOnce /\ MetrAvoidsOrFallsBack)

(* C30, amended: given at least one worker, assign_chunks_with_metrics
   assigns every chunk exactly once, in order, and never to a worker whose
   recorded failures are at or above the threshold, unless every worker is
   at or above it, in which case all workers are used round-robin; given no
   worker, it assigns nothing. *)
C30_MetricsAssignGivenWorkers ==
    metr.called =>
       /\ metr.peers = <<>> => metr.out = <<>>
       /\ metr.peers # <<>> =>
             /\ EachChunkAssignedOnce
             /\ Len(metr.out) = Len(metr.chunk_ids)
             /\ \A i \in DOMAIN metr.out : metr.out[i][1] = metr.chunk_ids[i]
       /\ MetrAvoidsOrFallsBack

\* three workers, the second with DEFAULT_MAX_FAILURES failures recorded: the
\* chunks alternate between the other two
C30_Witness ==
    /\ metr.called
    /\ metr.max_failures = DEFAULT_MAX_FAILURES
    /\ Len(metr.peers) = 3
    /\ OverThreshold(metr.peers[2])
    /\ ~OverThreshold(metr.peers[1]) /\ ~OverThreshold(metr.peers[3])
    /\ Len(metr.chunk_ids) = SchedMaxChunks
    /\ \A j \in DOMAIN metr.out :
          metr.out[j][2] = IF j % 2 = 1 THEN metr.peers[1] ELSE metr.peers[3]

-----------------------------------------------------------------------------
(* Claims on Spec: a received chunk delivered again with other content *)

(* C31: if a chunk already in the received set arrives again with different
   content, under a hash that matches the new payload, the stored payload is
   not replaced and the call does not complete the transfer: the receipt is
   turned down. *)
C31_DifferingReissueNotAdmitted ==
    active_transfer # None =>
        LET st == active_transfer[1].state
        IN \A k \in DOMAIN st.received : \A payload \in PayloadInputs(k.start, k.end) :
              payload # st.received[k] =>
                 LET r == on_chunk_received(Core, k.transfer_id, k.start, k.end,
                                            hash_chunk(payload), payload)
                 IN /\ r.res \notin {"InProgress", "Complete"}
                    /\ r.core.active_transfer # None =>
                          r.core.active_transfer[1].state.received[k] = st.received[k]

-----------------------------------------------------------------------------
(* MetaSpec: requests that come with metadata, in a pod that peers join and
   leave *)

RequestMetadata(url, content_length, supports_range, is_encrypted_stream) ==
    [url |-> url, method |-> "GET", content_length |-> content_length,
     supports_range |-> supports_range, is_encrypted_stream |-> is_encrypted_stream]

MetadataInputs ==
    {RequestMetadata(HttpUrl, l, r, e) :
        l \in {None, Some(0), Some(1), Some(DEFAULT_CHUNK_SIZE), Some(DEFAULT_CHUNK_SIZE + 1)},
        r \in BOOLEAN, e \in BOOLEAN}

NextMeta ==
    \/ \E p \in PeerIds : OnPeerJoined(p) /\ Quiet
    \/ \E p \in PeerIds : OnPeerLeft(p) /\ Quiet
    \/ \E metadata \in MetadataInputs : OnIncomingRequestWithMetadata(metadata) /\ Quiet

MetaSpec == Init /\ [][NextMeta]_vars

(* C32: on_incoming_request_with_metadata returns Fallback and leaves the
   Coordinator as it was - no transfer created, none replaced - whenever
   supports_range is false, is_encrypted_stream is true, or content_length
   is absent or zero, whatever the peers; otherwise its result and its state
   change are those of on_incoming_request(url, Some((0, content_length - 1))). *)
C32_MetadataGatesRequest ==
    \A metadata \in MetadataInputs :
       LET r == on_incoming_request_with_metadata(Core, metadata)
           l == metadata.content_length
       IN IF ~metadata.supports_range \/ metadata.is_encrypted_stream \/ l = None \/ l = Some(0)
          THEN r.res = "Fallback" /\ r.core = Core
          ELSE r = on_incoming_request(Core, metadata.url, Some(<<0, l[1] - 1>>))

\* a request with metadata was turned down while peers were in the pod and
\* a transfer was active: the metadata made it ineligible
C32_Witness ==
    /\ last.op = "on_incoming_request_with_metadata"
    /\ last.res = "Fallback"
    /\ peers # <<>>
    /\ active_transfer # None
    /\ Len(active_transfer[1].assignment) = 2

-----------------------------------------------------------------------------
(* Claims on SchedSpec: weights.  scheduler.rs has two entry points that
   assign, assign_chunks_to_peers and assign_chunks_with_metrics; neither
   takes weights, so whatever weights a caller holds, the assignment it gets
   for a worker list is the one assign_chunks_to_peers returned. *)

RECURSIVE SumTo(_, _)
SumTo(f, n) == IF n = 0 THEN 0 ELSE f[n] + SumTo(f, n - 1)

\* out deals the chunks in contiguous blocks, in worker order, counts[p]
\* chunks to the p-th worker
DealtInBlocks(out, chunk_ids, workers, counts) ==
    /\ SumTo(counts, Len(workers)) = Len(chunk_ids)
    /\ Len(out) = Len(chunk_ids)
    /\ \A i \in DOMAIN out :
          /\ out[i][1] = chunk_ids[i]
          /\ \E p \in DOMAIN workers :
                /\ SumTo(counts, p - 1) < i /\ i <= SumTo(counts, p)
                /\ out[i][2] = workers[p]

(* C33: for T chunks and non-negative integer weights with sum W > 0, each
   worker p gets a contiguous block of between floor(w_p*T/W) and
   floor(w_p*T/W)+1 chunks, dealt in worker order, all T chunks assigned;
   with W = 0 the result is the unweighted round-robin assignment. *)
C33_WeightedBlocks ==
    (sched.called /\ sched.workers # <<>>) =>
        LET n == Len(sched.workers)
            T == Len(sched.chunk_ids)
        IN \A weights \in [1..n -> 0..2] :
              LET W == SumTo(weights, n)
              IN IF W = 0 THEN RoundRobin(sched.out, sched.chunk_ids, sched.workers)
                 ELSE \E counts \in [1..n -> 0..T] :
                         /\ \A p \in 1..n :
                               counts[p] \in {(weights[p] * T) \div W, ((weights[p] * T) \div W) + 1}
                         /\ DealtInBlocks(sched.out, sched.chunk_ids, sched.workers, counts)

-----------------------------------------------------------------------------
(* pea-windows proxy.rs: handle_client and accelerate_response, one task per
   connection, sharing the Coordinator and the transfer_waiters map with the
   transport's read loops.  A connection's waiter is "none", "waiting" (the
   oneshot sender is in transfer_waiters), "sent" (the read loop took it out
   and sent the body) or "removed". *)

ClientIs(cl, c) == host' = [host EXCEPT !.clients[cl] = c]

\* handle_client, from the request to the Coordinator's decision: Fallback
\* is forwarded to the origin, Accelerate registers the waiter
ProxyHandle(cl) ==
    /\ host.clients[cl].pc = "accepted"
    /\ OnIncomingRequest(HttpUrl, FullRange)
    /\ IF last'.res = "Fallback"
       THEN ClientIs(cl, [host.clients[cl] EXCEPT !.pc = "done", !.response = "direct"])
       ELSE ClientIs(cl, [host.clients[cl] EXCEPT !.pc = "loop",
                                                  !.transfer = active_transfer'[1].state.transfer_id,
                                                  !.assignment = last'.assignment,
                                                  !.waiter = "waiting"])

\* accelerate_response, one pass of `for (chunk_id, peer_id) in &assignment`
\* on a chunk of the local device: the range is fetched and handed to the
\* Coordinator; the body, if that completes the transfer, is the response
ProxyFetchOwn(cl) ==
    LET c == host.clients[cl]
    IN /\ c.pc = "loop"
       /\ c.i <= Len(c.assignment)
       /\ c.assignment[c.i][2] = Self
       /\ LET k == c.assignment[c.i][1]
              payload == TruePayload(k.start, k.end)
          IN OnChunkReceived(k.transfer_id, k.start, k.end, hash_chunk(payload), payload)
       /\ IF last'.res = "Complete"
          THEN ClientIs(cl, [c EXCEPT !.pc = "done", !.response = "accelerated",
                                      !.waiter = "removed"])
          ELSE ClientIs(cl, [c EXCEPT !.i = @ + 1])

\* the same pass on a peer's chunk: the ChunkRequest goes to the peer's sender
ProxyAskPeer(cl) ==
    LET c == host.clients[cl]
    IN /\ c.pc = "loop"
       /\ c.i <= Len(c.assignment)
       /\ c.assignment[c.i][2] # Self
       /\ host' = [host EXCEPT !.clients[cl].i = @ + 1,
                               !.net = @ \cup {[chunk |-> c.assignment[c.i][1],
                                                worker |-> c.assignment[c.i][2]]}]
       /\ UNCHANGED <<core_vars, direct>>

\* the loop is over: the task waits on the oneshot receiver
ProxyLoopEnds(cl) ==
    LET c == host.clients[cl]
    IN /\ c.pc = "loop"
       /\ c.i > Len(c.assignment)
       /\ ClientIs(cl, [c EXCEPT !.pc = "waiting"])
       /\ UNCHANGED <<core_vars, direct>>

\* transport.rs, the read loop: a peer's ChunkData reaches the Coordinator;
\* when it completes the transfer the body goes to the waiter registered
\* under the transfer id, if there is one
ProxyPeerData ==
    \E m \in host.net :
       /\ LET payload == TruePayload(m.chunk.start, m.chunk.end)
          IN OnChunkReceived(m.chunk.transfer_id, m.chunk.start, m.chunk.end,
                             hash_chunk(payload), payload)
       /\ host' = [host EXCEPT
             !.net = @ \ {m},
             !.clients = [cl \in ProxyClients |->
                            IF /\ last'.res = "Complete"
                               /\ @[cl].transfer = m.chunk.transfer_id
                               /\ @[cl].waiter = "waiting"
                            THEN [@[cl] EXCEPT !.waiter = "sent"]
                            ELSE @[cl]]]

\* `timeout(30 s, rx)` returns the body: it is written to the client
ProxyRespond(cl) ==
    LET c == host.clients[cl]
    IN /\ c.pc = "waiting"
       /\ c.waiter = "sent"
       /\ ClientIs(cl, [c EXCEPT !.pc = "done", !.response = "accelerated"])
       /\ UNCHANGED <<core_vars, direct>>

\* `timeout(30 s, rx)` expires: the `_` arm removes the waiter and returns
ProxyWaitExpires(cl) ==
    LET c == host.clients[cl]
    IN /\ c.pc = "waiting"
       /\ c.waiter = "waiting"
       /\ ClientIs(cl, [c EXCEPT !.pc = "done", !.waiter = "removed"])
       /\ UNCHANGED <<core_vars, direct>>

NextProxy ==
    \/ \E p \in LongPeers : OnPeerJoined(p) /\ Quiet
    \/ \E cl \in ProxyClients : ProxyHandle(cl) /\ NoHistory
    \/ \E cl \in ProxyClients : ProxyFetchOwn(cl) /\ NoHistory
    \/ \E cl \in ProxyClients : ProxyAskPeer(cl) /\ NoHistory
    \/ \E cl \in ProxyClients : ProxyLoopEnds(cl) /\ NoHistory
    \/ ProxyPeerData /\ NoHistory
    \/ \E cl \in ProxyClients : ProxyRespond(cl) /\ NoHistory
    \/ \E cl \in ProxyClients : ProxyWaitExpires(cl) /\ NoHistory

ProxySpec == Init /\ [][NextProxy]_vars

(* C34: a connection whose accelerated request did not complete - the body
   did not arrive before the wait expired, or another connection's request
   replaced the transfer - is served by a direct fetch: when its task is
   done, the client has a complete response, accelerated or direct. *)
C34_EveryClientAnswered ==
    \A cl \in ProxyClients :
       host.clients[cl].pc = "done" => host.clients[cl].response \in {"accelerated", "direct"}

-----------------------------------------------------------------------------
(* Claims on LongSpec: the age at which a chunk request times out *)

\* the ChunkRequests for chunk k among actions
RequestsFor(actions, k) ==
    SelectSeq(RequestedIn(actions),
              LAMBDA a : ChunkId(a.bytes.msg.transfer_id, a.bytes.msg.start, a.bytes.msg.end) = k)

(* C35: the next tick removes a request-tick entry exactly when the new tick
   count is more than DEFAULT_CHUNK_TIMEOUT_TICKS (30) above the tick
   recorded, and leaves every other entry as it is, so an entry made at tick
   t is there through tick t+30 and gone at t+31; and a chunk that was
   received, its entry cleared, gets no entry and no ChunkRequest from a
   later tick. *)
C35_TimesOutAfterThirtyTicks ==
    LET c0 == [Core EXCEPT !.tick_count = @ + 1]
    IN \A overdue \in Orders(OverduePeers(c0)), timed_out \in Orders(TimedOutChunks(c0)) :
          LET r == tick(Core, overdue, timed_out)
              after == r.core.chunk_request_times
          IN /\ \A k \in DOMAIN chunk_request_times :
                   IF (tick_count + 1) - chunk_request_times[k] > 30
                   THEN k \notin DOMAIN after
                   ELSE k \in DOMAIN after /\ after[k] = chunk_request_times[k]
             /\ DOMAIN after \subseteq DOMAIN chunk_request_times
             /\ \A k \in DOMAIN chunk_request_times : tick_count - chunk_request_times[k] <= 30
             /\ active_transfer # None =>
                   \A k \in DOMAIN active_transfer[1].state.received :
                      k \notin DOMAIN chunk_request_times =>
                         /\ k \notin DOMAIN after
                         /\ RequestsFor(r.actions, k) = <<>>

(* C35, the timeout phase alone: the same, with the requests a tick's
   eviction phase makes for a received chunk set aside. *)
C35_TimeoutPhaseLeavesReceivedAlone ==
    LET c0 == [Core EXCEPT !.tick_count = @ + 1]
    IN \A overdue \in Orders(OverduePeers(c0)), timed_out \in Orders(TimedOutChunks(c0)) :
          LET r == tick(Core, overdue, timed_out)
              evicted == EvictOverdue(c0, overdue, <<>>)
              after == r.core.chunk_request_times
          IN /\ \A k \in DOMAIN chunk_request_times :
                   IF (tick_count + 1) - chunk_request_times[k] > 30
                   THEN k \notin DOMAIN after
                   ELSE k \in DOMAIN after /\ after[k] = chunk_request_times[k]
             /\ DOMAIN after \subseteq DOMAIN chunk_request_times
             /\ \A k \in DOMAIN chunk_request_times : tick_count - chunk_request_times[k] <= 30
             /\ active_transfer # None =>
                   \A k \in DOMAIN active_transfer[1].state.received :
                      k \notin DOMAIN chunk_request_times =>
                         /\ k \notin DOMAIN after
                         /\ Len(RequestsFor(r.actions, k)) = Len(RequestsFor(evicted.actions, k))


-----------------------------------------------------------------------------
(* Claims on LongSpec: who holds the chunks, who is known to be alive *)

(* C36: at the end of every operation each assignee named in
   current_assignment() is the local device or a member of the peer set: no
   chunk stays assigned to a peer that has left or was evicted. *)
C36_AssigneesArePresent ==
    active_transfer # None =>
        \A i \in 1..Len(active_transfer[1].assignment) :
            LET w == active_transfer[1].assignment[i][2]
            IN w = Self \/ Contains(peers, w)

\* the tick that evicted the only peer handed its chunk to the local device
C36_Witness ==
    /\ last.op = "tick"
    /\ tick_count = HEARTBEAT_TIMEOUT_TICKS + 1
    /\ peers = <<>>
    /\ active_transfer # None
    /\ Len(RequestedIn(last.actions)) = 1
    /\ last.actions[1].peer = Self
    /\ Len(active_transfer[1].assignment) = 2

(* C37: the devices holding a last-seen tick are the members of the peer
   set, which holds no device twice; a heartbeat for a device that is not in
   the peer set, by on_heartbeat_received or by a Heartbeat frame, creates
   no last-seen record and does not make the device a peer. *)
C37_LastSeenOnlyForPeers ==
    /\ DOMAIN peer_last_tick = {peers[i] : i \in 1..Len(peers)}
    /\ \A i, j \in 1..Len(peers) : i # j => peers[i] # peers[j]
    /\ \A p \in PeerIds :
          ~Contains(peers, p) =>
             /\ on_heartbeat_received(Core, p).peer_last_tick = peer_last_tick
             /\ on_heartbeat_received(Core, p).peers = peers
             /\ LET r == on_message_received(Core, PeerNames[1], encode_frame(Heartbeat(p)))
                IN r.core.peer_last_tick = peer_last_tick /\ r.core.peers = peers

(* C39: a Join, Leave or Heartbeat frame passed to on_message_received with
   sender `from` changes only the peer entry of `from`: it leaves the
   membership and the last-seen tick of every other device as they were, and
   does not add the local device to the peer set. *)
C39_FrameTouchesOnlyItsSender ==
    \A from \in PeerIds, named \in Devices :
       \A msg \in {Join(named), Leave(named), Heartbeat(named)} :
          LET r == on_message_received(Core, from, encode_frame(msg))
          IN /\ ~Contains(r.core.peers, Self)
             /\ Self \notin DOMAIN r.core.peer_last_tick
             /\ \A b \in PeerIds \ {from} :
                   /\ Contains(r.core.peers, b) = Contains(peers, b)
                   /\ (b \in DOMAIN r.core.peer_last_tick) = (b \in DOMAIN peer_last_tick)
                   /\ b \in DOMAIN peer_last_tick =>
                         r.core.peer_last_tick[b] = peer_last_tick[b]

(* C38: the Coordinator never emits a ChunkRequest for a chunk that is in
   the received set of the active transfer: the reassignments after a peer
   leaves or is evicted, after a Nack and after a timeout request only
   chunks that are still missing. *)
C38_NoRequestForReceivedChunk ==
    active_transfer # None =>
        LET held == DOMAIN active_transfer[1].state.received
            c0 == [Core EXCEPT !.tick_count = @ + 1]
        IN /\ \A overdue \in Orders(OverduePeers(c0)), timed_out \in Orders(TimedOutChunks(c0)) :
                 \A k \in held : RequestsFor(tick(Core, overdue, timed_out).actions, k) = <<>>
           /\ \A p \in LongPeers :
                 /\ \A k \in held : RequestsFor(on_peer_left(Core, p).actions, k) = <<>>
                 /\ \A k \in held, n \in LongChunkInputs :
                       RequestsFor(on_message_received(Core, p, encode_frame(Nack(n))).actions, k)
                          = <<>>

-----------------------------------------------------------------------------
(* pea-windows transport.rs and pea-core identity.rs: the connections two
   devices make to each other in one run of the program.  Each device has
   the keypair main made at start-up; a connection begins with the
   handshake, after which each end runs run_connection with the session
   key it derived. *)

PairDevices == {"A", "B"}
PairMaxConns == 2
PairMaxFrames == 2

\* Keypair::shared_secret: X25519 of one device's secret with the other's
\* public key; both devices of a pair get the same value, whoever computes it
shared_secret(own, other_public) == {own, other_public}

\* identity::derive_session_key: SHA-256 of the label and the shared secret
derive_session_key(secret) == <<"peapod-session-v1", secret>>

OtherEnd(e) == IF e = "dial" THEN "accept" ELSE "dial"

\* handshake_connect at one device and handshake_accept at the other, then
\* run_connection at both: every local starts as the code sets it
PairHandshake(dialer) ==
    /\ ~host.link.open
    /\ host.link.conns < PairMaxConns
    /\ LET acceptor == CHOOSE d \in PairDevices : d # dialer
       IN host' = [host EXCEPT
             !.link.conns = @ + 1,
             !.link.open = TRUE,
             !.link.device = [dial |-> dialer, accept |-> acceptor],
             !.link.key = [dial |-> derive_session_key(shared_secret(dialer, acceptor)),
                           accept |-> derive_session_key(shared_secret(acceptor, dialer))],
             !.link.write_nonce = [e \in LinkEnds |-> 0],
             !.link.read_nonce = [e \in LinkEnds |-> 0],
             !.link.stream = [e \in LinkEnds |-> <<>>]]
    /\ UNCHANGED <<core_vars, direct>>

\* the writer task of end e: one pass of its loop.  The frame is named by
\* the connection, the device that sends it and its place in the direction.
PairWrite(e) ==
    /\ host.link.open
    /\ host.link.write_nonce[e] < PairMaxFrames
    /\ LET plain == [conn |-> host.link.conns, from |-> host.link.device[e],
                     seq |-> host.link.write_nonce[e]]
           cipher == encrypt_wire(host.link.key[e], host.link.write_nonce[e], plain)
       IN host' = [host EXCEPT !.link.write_nonce[e] = NonceSatAdd(@),
                               !.link.stream[e] = Append(@, cipher),
                               !.link.sent = @ \cup {cipher}]
    /\ UNCHANGED <<core_vars, direct>>

\* the read loop of end e: one pass over what the other end wrote; a frame
\* that does not decrypt ends the loop and with it the connection
PairRead(e) ==
    /\ host.link.open
    /\ host.link.stream[OtherEnd(e)] # <<>>
    /\ LET plain == decrypt_wire(host.link.key[e], host.link.read_nonce[e],
                                 Head(host.link.stream[OtherEnd(e)]))
       IN host' = IF plain.ok
                  THEN [host EXCEPT !.link.read_nonce[e] = NonceSatAdd(@),
                                    !.link.stream[OtherEnd(e)] = Tail(@)]
                  ELSE [host EXCEPT !.link.open = FALSE]
    /\ UNCHANGED <<core_vars, direct>>

\* the TCP connection ends: read_exact fails in both read loops
PairClose ==
    /\ host.link.open
    /\ host' = [host EXCEPT !.link.open = FALSE,
                            !.link.stream = [e \in LinkEnds |-> <<>>]]
    /\ UNCHANGED <<core_vars, direct>>

NextPair ==
    \/ \E d \in PairDevices : PairHandshake(d) /\ NoHistory
    \/ \E e \in LinkEnds : PairWrite(e) /\ NoHistory
    \/ \E e \in LinkEnds : PairRead(e) /\ NoHistory
    \/ PairClose /\ NoHistory

PairSpec == Init /\ [][NextPair]_vars

(* C40: between two devices no pair of session key and nonce is ever used
   to encrypt two different frames, over the two directions of a connection
   and over the successive connections the two devices make. *)
C40_KeyNonceNeverReused ==
    \A f, g \in host.link.sent :
        (f.key = g.key /\ f.nonce = g.nonce) => f.plain = g.plain

=============================================================================
